---------------------------- MODULE Spec2Model ----------------------------
(***************************************************************************)
(* Field canonicalization and value normalization engine                   *)
(* (src/src/formatters/field_formatter.py, src/src/mappers/field_mapper.py)*)
(*                                                                         *)
(* Text is a sequence of characters; a character is a one-character string *)
(* ("a", "6", ".") or, for a CJK character, the token "U" followed by its   *)
(* code point ("U65E5" for the character of code point 65E5).              *)
(* A Python value is a tagged record: NoneV, Str(s), IntV(n), FloatV(..).  *)
(***************************************************************************)
EXTENDS Integers, Sequences, FiniteSets, TLC

VARIABLES
    code,            \* normalize_stock_code: argument code
    target_format,   \* normalize_stock_code: argument target_format
    default_market,  \* normalize_stock_code: argument default_market
    code_result,     \* what the call returned
    code_again,      \* what the call on code_result returned
    code_pc,         \* "idle" | "ready" | "done" | "again"
    pandas_available,\* whether "import pandas" succeeds in this process
    date_str,        \* normalize_date: argument date_str
    date_format,     \* normalize_date: argument target_format
    date_result,     \* what the call returned
    date_again,      \* what the call on date_result returned
    date_pc,         \* "idle" | "ready" | "done" | "again"
    num_value,       \* normalize_float / normalize_int: argument value
    num_result,      \* what the call returned, or the exception it raised
    num_pc,          \* "idle" | "ready" | "float" | "int"
    field_equivalents, \* FieldMapper.field_equivalents, the alias table
    field_name,      \* get_canonical_name: argument field_name
    canonical_name,  \* what get_canonical_name returned
    standard_field,  \* what _map_to_standard_field returned, or the exception it raised
    resolver_pc,     \* "idle" | "ready" | "done" | "mapped"
    loaded_equivalents,    \* FieldEquivalentsValidator: mapper.field_equivalents as loaded
    validator_equivalents, \* FieldEquivalentsValidator.field_equivalents
    issues,          \* what validate_equivalents_consistency returned
    validator_pc,    \* "idle" | "ready" | "done"
    mapping_data,    \* InterfaceExecutor.mapping_data: the persisted interface schema
    api_name,        \* the interface name of the last call
    user_input,      \* the request of the last call, a dict
    unified_input,   \* what unify_input or normalize_params returned, or raised
    api_output,      \* the interface result handed to unify_output
    unified_output,  \* what unify_output returned
    orch_pc,         \* "idle" | "loaded" | "unify_input" | "normalize_params" | "unify_output"
    fields,          \* FieldMapper.fields: canonical name -> collected information
    field_to_interfaces, \* FieldMapper.field_to_interfaces
    saved_fields,    \* the fields of complete_field_mapping.json, NoneV before save_mapping
    rows_folded,     \* the table rows build_mapping has folded so far
    builder_pc,      \* "idle" | "building" | "saved"
    configs,         \* download_all_data: the entries of the task file, by kind
    max_retries,     \* download_all_data: argument max_retries
    config_index,    \* the position i of the interface being processed
    attempt,         \* the loop variable of range(max_retries)
    results,         \* the list download_all_data returns
    downloader_pc,   \* "idle" | "loop" | "attempting" | "raised" | "returned"
    content,         \* _parse_file_with_detail: the text of the file
    interfaces,      \* what _parse_file_with_detail returned
    parser_pc        \* "idle" | "read" | "parsed"

codeVars == <<code, target_format, default_market, code_result, code_again, code_pc>>
dateVars == <<pandas_available, date_str, date_format, date_result, date_again, date_pc>>
numVars == <<num_value, num_result, num_pc>>
resolverVars == <<field_equivalents, field_name, canonical_name, standard_field, resolver_pc>>
validatorVars == <<loaded_equivalents, validator_equivalents, issues, validator_pc>>
orchVars == <<mapping_data, api_name, user_input, unified_input, api_output, unified_output,
              orch_pc>>
builderVars == <<fields, field_to_interfaces, saved_fields, rows_folded, builder_pc>>
downloaderVars == <<configs, max_retries, config_index, attempt, results, downloader_pc>>
parserVars == <<content, interfaces, parser_pc>>
vars == <<codeVars, dateVars, numVars, resolverVars, validatorVars, orchVars, builderVars,
          downloaderVars,
          parserVars>>

---------------------------------------------------------------------------
(* Python values *)

NoneV == [tag |-> "none"]
Str(s) == [tag |-> "str", val |-> s]
IntV(n) == [tag |-> "int", val |-> n]

\* a float: the decimal num / 10^scale in lowest terms of ten, or an
\* infinity (num is its sign), or not-a-number
FloatV(kind, num, scale) == [tag |-> "float", kind |-> kind, num |-> num, scale |-> scale]
PosInf == FloatV("inf", 1, 0)
NegInf == FloatV("inf", -1, 0)
NaN == FloatV("nan", 0, 0)

\* an exception that leaves the call
Raise(name) == [tag |-> "raise", val |-> name]

---------------------------------------------------------------------------
(* Text primitives: str.strip, startswith, endswith, upper, lower, zfill,  *)
(* str(int), and the two regular expressions of normalize_stock_code.      *)

Digit == {"0", "1", "2", "3", "4", "5", "6", "7", "8", "9"}
DigitSeq == <<"0", "1", "2", "3", "4", "5", "6", "7", "8", "9">>
Whitespace == {" "}
LowerAlpha == <<"a","b","c","d","e","f","g","h","i","j","k","l","m",
                "n","o","p","q","r","s","t","u","v","w","x","y","z">>
UpperAlpha == <<"A","B","C","D","E","F","G","H","I","J","K","L","M",
                "N","O","P","Q","R","S","T","U","V","W","X","Y","Z">>

RECURSIVE lstrip(_)
lstrip(s) ==
    IF s # <<>> /\ Head(s) \in Whitespace THEN lstrip(Tail(s)) ELSE s

RECURSIVE rstrip(_)
rstrip(s) ==
    IF s # <<>> /\ s[Len(s)] \in Whitespace
    THEN rstrip(SubSeq(s, 1, Len(s) - 1))
    ELSE s

strip(s) == rstrip(lstrip(s))

startswith(s, p) == Len(p) <= Len(s) /\ SubSeq(s, 1, Len(p)) = p

endswith(s, p) == Len(p) <= Len(s) /\ SubSeq(s, Len(s) - Len(p) + 1, Len(s)) = p

upper_char(c) ==
    IF \E i \in 1..26 : LowerAlpha[i] = c
    THEN UpperAlpha[CHOOSE i \in 1..26 : LowerAlpha[i] = c]
    ELSE c

lower_char(c) ==
    IF \E i \in 1..26 : UpperAlpha[i] = c
    THEN LowerAlpha[CHOOSE i \in 1..26 : UpperAlpha[i] = c]
    ELSE c

upper(s) == [i \in 1..Len(s) |-> upper_char(s[i])]

lower(s) == [i \in 1..Len(s) |-> lower_char(s[i])]

RECURSIVE Zeros(_)
Zeros(n) == IF n <= 0 THEN <<>> ELSE <<"0">> \o Zeros(n - 1)

\* str.zfill(width) of a text without a sign
zfill(s, width) == Zeros(width - Len(s)) \o s

RECURSIVE nat_str(_)
nat_str(n) ==
    IF n < 10 THEN <<DigitSeq[n + 1]>>
    ELSE nat_str(n \div 10) \o <<DigitSeq[(n % 10) + 1]>>

\* str(n) of an int
int_str(n) == IF n < 0 THEN <<"-">> \o nat_str(-n) ELSE nat_str(n)

\* str(value) for the values a caller passes
py_str(v) == IF v.tag = "int" THEN int_str(v.val) ELSE v.val

RECURSIVE take_digits(_)
take_digits(s) ==
    IF s # <<>> /\ Head(s) \in Digit
    THEN <<Head(s)>> \o take_digits(Tail(s))
    ELSE <<>>

RECURSIVE re_search_digits(_)
\* re.search(r'(\d+)', s).group(1): the first maximal digit run; <<>> when
\* there is no match
re_search_digits(s) ==
    IF s = <<>> THEN <<>>
    ELSE IF Head(s) \in Digit THEN take_digits(s)
    ELSE re_search_digits(Tail(s))

\* s.isdigit() over the model's characters
IsDigitText(s) == s # <<>> /\ \A i \in 1..Len(s) : s[i] \in Digit

\* re.sub(r'[^\d]', '', s)
re_sub_non_digits(s) == SelectSeq(s, LAMBDA c : c \in Digit)

---------------------------------------------------------------------------
(* FieldFormatter.normalize_stock_code *)

PURE_NUMERIC == "pure_numeric"
WITH_SUFFIX == "with_suffix"
WITH_PREFIX == "with_prefix"
StockCodeFormat == {PURE_NUMERIC, WITH_SUFFIX, WITH_PREFIX}

\* dictionaries in insertion order: <<market, variants>>
MARKET_SUFFIX ==
    << <<<<"s","h">>, << <<"S","H">>, <<"s","h">>, <<".","S","H">>, <<".","s","h">> >> >>,
       <<<<"s","z">>, << <<"S","Z">>, <<"s","z">>, <<".","S","Z">>, <<".","s","z">> >> >>,
       <<<<"b","j">>, << <<"B","J">>, <<"b","j">>, <<".","B","J">>, <<".","b","j">> >> >> >>

MARKET_PREFIX ==
    << <<<<"s","h">>, << <<"s","h">>, <<"S","H">> >> >>,
       <<<<"s","z">>, << <<"s","z">>, <<"S","Z">> >> >>,
       <<<<"b","j">>, << <<"b","j">>, <<"B","J">> >> >> >>

\* for mkt, variants in table.items(): for v in variants: append((mkt, v))
RECURSIVE flatten_markers(_)
flatten_markers(table) ==
    IF table = <<>> THEN <<>>
    ELSE LET mkt == Head(table)[1]
             variants == Head(table)[2]
         IN  [i \in 1..Len(variants) |-> <<mkt, variants[i]>>]
             \o flatten_markers(Tail(table))

RECURSIVE by_len_from(_, _)
by_len_from(pairs, n) ==
    IF n = 0 THEN <<>>
    ELSE SelectSeq(pairs, LAMBDA p : Len(p[2]) = n) \o by_len_from(pairs, n - 1)

\* list.sort(key=lambda x: len(x[1]), reverse=True): stable, longest first
sort_len_desc(pairs) ==
    LET longest == CHOOSE n \in 0..8 :
                       /\ \A i \in 1..Len(pairs) : Len(pairs[i][2]) <= n
                       /\ \/ n = 0
                          \/ \E i \in 1..Len(pairs) : Len(pairs[i][2]) = n
    IN  by_len_from(pairs, longest)

all_suffixes == sort_len_desc(flatten_markers(MARKET_SUFFIX))

all_prefixes == sort_len_desc(flatten_markers(MARKET_PREFIX))

\* index of the first suffix the text ends with, 0 when there is none
match_suffix(s) ==
    IF \E i \in 1..Len(all_suffixes) : endswith(s, all_suffixes[i][2])
    THEN CHOOSE i \in 1..Len(all_suffixes) :
             /\ endswith(s, all_suffixes[i][2])
             /\ \A j \in 1..(i - 1) : ~endswith(s, all_suffixes[j][2])
    ELSE 0

\* index of the first prefix the text starts with, 0 when there is none
match_prefix(s) ==
    IF \E i \in 1..Len(all_prefixes) : startswith(s, all_prefixes[i][2])
    THEN CHOOSE i \in 1..Len(all_prefixes) :
             /\ startswith(s, all_prefixes[i][2])
             /\ \A j \in 1..(i - 1) : ~startswith(s, all_prefixes[j][2])
    ELSE 0


\* infer_market without the test that the run has six digits
infer_market_any_length(numeric_part) ==
    IF numeric_part[1] = "6" THEN Str(<<"s","h">>)
    ELSE IF numeric_part[1] = "0" \/ numeric_part[1] = "3" THEN Str(<<"s","z">>)
    ELSE IF numeric_part[1] = "8" \/ numeric_part[1] = "4" \/ numeric_part[1] = "9"
         THEN Str(<<"b","j">>)
    ELSE NoneV

\* the market the leading digit of a digit run gives under "auto"
infer_market(numeric_part) ==
    IF Len(numeric_part) = 6
    THEN IF numeric_part[1] = "6" THEN Str(<<"s","h">>)
         ELSE IF numeric_part[1] = "0" \/ numeric_part[1] = "3" THEN Str(<<"s","z">>)
         ELSE IF numeric_part[1] = "8" \/ numeric_part[1] = "4" \/ numeric_part[1] = "9"
              THEN Str(<<"b","j">>)
         ELSE NoneV
    ELSE NoneV

\* Python truth of an Optional[str]
truthy(v) == v.tag = "str" /\ v.val # <<>>


\* extract_code with the prefix table tried before the suffix table
extract_code_prefix_first(code_str, dm) ==
    LET si == match_suffix(code_str)
        pi == match_prefix(code_str)
    IN  IF pi # 0
        THEN <<SubSeq(code_str, Len(all_prefixes[pi][2]) + 1, Len(code_str)),
               Str(all_prefixes[pi][1])>>
        ELSE IF si # 0
        THEN <<SubSeq(code_str, 1, Len(code_str) - Len(all_suffixes[si][2])),
               Str(all_suffixes[si][1])>>
        ELSE LET run == re_search_digits(code_str)
             IN  IF run = <<>> THEN <<<<>>, NoneV>>
                 ELSE IF dm = <<"a","u","t","o">> THEN <<run, infer_market(run)>>
                 ELSE <<run, Str(dm)>>

\* lines 67-119: <<numeric_part, market>> extracted from the stripped text
extract_code(code_str, dm) ==
    LET si == match_suffix(code_str)
        pi == match_prefix(code_str)
    IN  IF si # 0
        THEN <<SubSeq(code_str, 1, Len(code_str) - Len(all_suffixes[si][2])),
               Str(all_suffixes[si][1])>>
        ELSE IF pi # 0
        THEN <<SubSeq(code_str, Len(all_prefixes[pi][2]) + 1, Len(code_str)),
               Str(all_prefixes[pi][1])>>
        ELSE LET run == re_search_digits(code_str)
             IN  IF run = <<>> THEN <<<<>>, NoneV>>
                 ELSE IF dm = <<"a","u","t","o">> THEN <<run, infer_market(run)>>
                 ELSE <<run, Str(dm)>>


\* pad_code with the padding done before the non-digits are removed
pad_code_pad_first(numeric_part) == re_sub_non_digits(zfill(numeric_part, 6))

\* lines 124-128: keep the digits, pad to six
pad_code(numeric_part) == zfill(re_sub_non_digits(numeric_part), 6)

\* lines 130-143
render_code(numeric_part, market, fmt) ==
    IF fmt = PURE_NUMERIC THEN numeric_part
    ELSE IF fmt = WITH_SUFFIX
    THEN IF truthy(market) THEN numeric_part \o <<".">> \o upper(market.val)
         ELSE numeric_part
    ELSE IF fmt = WITH_PREFIX
    THEN IF truthy(market) THEN lower(market.val) \o numeric_part
         ELSE numeric_part
    ELSE numeric_part

normalize_stock_code(c, fmt, dm) ==
    IF c.tag = "none" THEN NoneV
    ELSE LET code_str == strip(py_str(c))
         IN  IF code_str = <<>> THEN NoneV
             ELSE LET ex == extract_code(code_str, dm)
                  IN  IF ex[1] = <<>> THEN Str(code_str)
                      ELSE Str(render_code(pad_code(ex[1]), ex[2], fmt))

---------------------------------------------------------------------------
(* Inputs of normalize_stock_code *)

MaxDigits == 7

DigitRuns ==
    {<<>>} \cup {<<d>> \o Zeros(k) : d \in Digit, k \in 0..(MaxDigits - 1)}

CodeHeads == {<<>>, <<"s","h">>, <<"S","H">>, <<"s","z">>, <<"b","j">>, <<"x">>, <<" ">>}

CodeMids == {<<>>, <<"5">>, <<"a">>, <<"a","5">>}

CodeTails == {<<>>, <<".","S","H">>, <<".","s","z">>, <<"S","Z">>, <<"b","j">>,
              <<".","B","J">>, <<"x">>, <<" ">>}

CodeTexts ==
    {h \o r \o m \o t : h \in CodeHeads, r \in DigitRuns, m \in CodeMids, t \in CodeTails}
    \cup { <<"n","a","n">>, <<"n","o","n","e">>, <<"N","a","N">>, <<"-">>,
           <<" ","n","a","n"," ">>, <<"a","b","c",".","S","Z">>, <<" "," ">> }

CodeInputs ==
    {NoneV} \cup {Str(s) : s \in CodeTexts} \cup {IntV(n) : n \in {0, 1, 600000, 300750}}

DefaultMarkets == {<<"a","u","t","o">>, <<"s","h">>, <<>>}

InitCode ==
    /\ code \in CodeInputs
    /\ target_format = PURE_NUMERIC
    /\ default_market = <<"a","u","t","o">>
    /\ code_result = NoneV
    /\ code_again = NoneV
    /\ code_pc = "ready"

IdleCode ==
    /\ code = NoneV
    /\ target_format = PURE_NUMERIC
    /\ default_market = <<"a","u","t","o">>
    /\ code_result = NoneV
    /\ code_again = NoneV
    /\ code_pc = "idle"

\* a caller normalizes a code
NormalizeStockCode ==
    /\ code_pc = "ready"
    /\ \E fmt \in StockCodeFormat, dm \in DefaultMarkets :
          /\ target_format' = fmt
          /\ default_market' = dm
          /\ code_result' = normalize_stock_code(code, fmt, dm)
    /\ code_pc' = "done"
    /\ UNCHANGED <<code, code_again>>
    /\ UNCHANGED <<dateVars, numVars, resolverVars, validatorVars, orchVars, builderVars, downloaderVars, parserVars>>

\* the caller normalizes the result once more, same form and default market
NormalizeStockCodeAgain ==
    /\ code_pc = "done"
    /\ code_again' = normalize_stock_code(code_result, target_format, default_market)
    /\ code_pc' = "again"
    /\ UNCHANGED <<code, target_format, default_market, code_result>>
    /\ UNCHANGED <<dateVars, numVars, resolverVars, validatorVars, orchVars, builderVars, downloaderVars, parserVars>>


---------------------------------------------------------------------------
(* Claims about normalize_stock_code *)

AUTO == <<"a","u","t","o">>

CodeCalled == code_pc \in {"done", "again"}

IsDigits(s) == \A i \in 1..Len(s) : s[i] \in Digit

\* the rendering the specification gives for six-or-more digits and a market
\* ("" for no market)
ExpectedCode(digits, mkt, fmt) ==
    IF fmt = WITH_SUFFIX /\ mkt # <<>> THEN Str(digits \o <<".">> \o upper(mkt))
    ELSE IF fmt = WITH_PREFIX /\ mkt # <<>> THEN Str(lower(mkt) \o digits)
    ELSE Str(digits)

\* the market table of the specification, by leading digit
LeadMarket(d) ==
    IF d = "6" THEN <<"s","h">>
    ELSE IF d \in {"0", "3"} THEN <<"s","z">>
    ELSE IF d \in {"8", "4", "9"} THEN <<"b","j">>
    ELSE <<>>

SuffixEntries == flatten_markers(MARKET_SUFFIX)

PrefixEntries == flatten_markers(MARKET_PREFIX)

\* C1: normalizing to the digits-only form twice gives what normalizing once
\* gives, for every input (null, text with or without marker or digits, int).
C1_CodeIdempotent ==
    (code_pc = "again" /\ target_format = PURE_NUMERIC) => code_again = code_result

\* a suffixed code whose digits-only form differs from the input was
\* normalized twice
C1_Witness ==
    /\ code_pc = "again"
    /\ target_format = PURE_NUMERIC
    /\ code = Str(<<"s","h","6","0","0",".","s","z">>)
    /\ code_result = Str(<<"0","0","0","6","0","0">>)
    /\ code_again = code_result

\* C2: for exactly six digits without marker and default_market "auto" the
\* market is that of the leading digit (6: sh; 0, 3: sz; 8, 4, 9: bj; else
\* none); a first digit run of another length gets no market; without a market
\* the suffix and prefix forms are the digits-only rendering.
C2_LeadingDigitMarket ==
    (CodeCalled /\ default_market = AUTO /\ code.tag # "none") =>
        LET s == py_str(code)
            run == re_search_digits(s)
        IN  /\ (Len(s) = 6 /\ IsDigits(s)) =>
                   code_result = ExpectedCode(s, LeadMarket(s[1]), target_format)
            /\ (/\ match_suffix(strip(s)) = 0
                /\ match_prefix(strip(s)) = 0
                /\ run # <<>>
                /\ Len(run) # 6) =>
                   code_result = Str(zfill(run, 6))

\* a six-digit code starting with 9 was rendered with the bj suffix
C2_Witness ==
    /\ CodeCalled
    /\ default_market = AUTO
    /\ target_format = WITH_SUFFIX
    /\ code = Str(<<"9","0","0","0","0","0">>)
    /\ code_result = Str(<<"9","0","0","0","0","0",".","B","J">>)

\* C3: digits with a recognised suffix, or a recognised prefix with digits,
\* normalize to those digits padded to six, the marker removed; the market is
\* the marker's whatever default_market and the leading digit say; with both a
\* prefix and a suffix the suffix decides; a dotted suffix is matched whole
\* (longer markers first).
C3_MarkerStripped ==
    (CodeCalled /\ code.tag = "str") =>
        LET s == code.val
            n == Len(s)
        IN  /\ \A i \in 1..Len(SuffixEntries) :
                   LET suf == SuffixEntries[i][2]
                       d == SubSeq(s, 1, n - Len(suf))
                   IN  (endswith(s, suf) /\ d # <<>> /\ IsDigits(d)) =>
                           code_result =
                               ExpectedCode(zfill(d, 6), SuffixEntries[i][1], target_format)
            /\ \A i \in 1..Len(PrefixEntries) :
                   LET pre == PrefixEntries[i][2]
                       d == SubSeq(s, Len(pre) + 1, n)
                   IN  (startswith(s, pre) /\ d # <<>> /\ IsDigits(d)) =>
                           code_result =
                               ExpectedCode(zfill(d, 6), PrefixEntries[i][1], target_format)
            /\ \A i \in 1..Len(SuffixEntries), j \in 1..Len(PrefixEntries) :
                   LET suf == SuffixEntries[i][2]
                       pre == PrefixEntries[j][2]
                       d == SubSeq(s, Len(pre) + 1, n - Len(suf))
                   IN  (/\ endswith(s, suf) /\ startswith(s, pre)
                        /\ d # <<>> /\ IsDigits(d)
                       ) =>
                           code_result =
                               ExpectedCode(zfill(d, 6), SuffixEntries[i][1], target_format)
            /\ \A i \in 1..Len(SuffixEntries) :
                   (Len(SuffixEntries[i][2]) = 3 /\ endswith(s, SuffixEntries[i][2])) =>
                       extract_code(s, default_market)[1] = SubSeq(s, 1, n - 3)

\* a code carrying the prefix sh and the suffix .sz was rendered with the
\* suffix's market although default_market is sh
C3_Witness ==
    /\ CodeCalled
    /\ code = Str(<<"s","h","6","0","0",".","s","z">>)
    /\ default_market = <<"s","h">>
    /\ target_format = WITH_PREFIX
    /\ code_result = Str(<<"s","z","0","0","0","6","0","0">>)

\* the null-like inputs of the specification
IsNullLikeCode(c) ==
    \/ c.tag = "none"
    \/ /\ c.tag = "str"
       /\ \/ strip(c.val) = <<>>
          \/ c.val \in {<<"n","a","n">>, <<"n","o","n","e">>, <<"-">>}

\* C4: normalize_stock_code returns None for every null-like input: null,
\* text empty after trimming, "nan", "none" and "-", whatever the target form.
C4_NullLikeAbsent ==
    (CodeCalled /\ IsNullLikeCode(code)) => code_result = NoneV

\* C5: text without any digit (also text that still carries a market suffix
\* or prefix) comes back as the trimmed original in every target form.
C5_NoDigitUnchanged ==
    (/\ CodeCalled
     /\ code.tag = "str"
     /\ ~IsNullLikeCode(code)
     /\ \A i \in 1..Len(code.val) : code.val[i] \notin Digit) =>
        code_result = Str(strip(code.val))

---------------------------------------------------------------------------
(* FieldFormatter.normalize_date *)

YYYYMMDD == "YYYYMMDD"
YYYY_MM_DD == "YYYY-MM-DD"
YYYY_MM_DD_HH_MM_SS == "YYYY-MM-DD HH:MM:SS"
YYYYMM == "YYYYMM"
DateFormat == {YYYYMMDD, YYYY_MM_DD, YYYY_MM_DD_HH_MM_SS, YYYYMM}

NIAN == "U5E74"
YUE == "U6708"
RI == "U65E5"

\* the parsed fields; -1 stands for Python's None
NoFields == [year |-> -1, month |-> -1, day |-> -1, hour |-> -1, minute |-> -1, second |-> -1]

digit_val(c) == CHOOSE n \in 0..9 : DigitSeq[n + 1] = c

RECURSIVE digits_int(_)
\* int(s) of a digit text
digits_int(s) ==
    IF s = <<>> THEN 0
    ELSE 10 * digits_int(SubSeq(s, 1, Len(s) - 1)) + digit_val(s[Len(s)])

\* f"{n:0wd}"
fmt_int(n, w) == zfill(nat_str(n), w)

\* lines 170-174: re.match(r'(\d{4})年(\d{1,2})月(\d{1,2})日', s); the groups
\* as texts, <<>> when there is no match
cn_date_match(s) ==
    IF /\ Len(s) >= 5
       /\ IsDigitText(SubSeq(s, 1, 4))
       /\ s[5] = NIAN
    THEN LET rest == SubSeq(s, 6, Len(s))
             m == take_digits(rest)
             after_m == SubSeq(rest, Len(m) + 1, Len(rest))
         IN  IF /\ Len(m) \in {1, 2}
                /\ after_m # <<>>
                /\ Head(after_m) = YUE
             THEN LET d == take_digits(Tail(after_m))
                      after_d == SubSeq(Tail(after_m), Len(d) + 1, Len(Tail(after_m)))
                  IN  IF /\ Len(d) \in {1, 2}
                         /\ after_d # <<>>
                         /\ Head(after_d) = RI
                      THEN <<SubSeq(s, 1, 4), m, d>>
                      ELSE <<>>
             ELSE <<>>
    ELSE <<>>

RECURSIVE re_findall_digits(_)
\* ''.join(re.findall(r'\d+', s)): every digit of the text, in order
re_findall_digits(s) == SelectSeq(s, LAMBDA c : c \in Digit)

is_leap(y) == (y % 4 = 0 /\ y % 100 # 0) \/ y % 400 = 0

days_in_month(y, m) ==
    IF m = 2 THEN (IF is_leap(y) THEN 29 ELSE 28)
    ELSE IF m \in {4, 6, 9, 11} THEN 30
    ELSE 31

\* a date and time pandas.Timestamp can hold (nanosecond range:
\* 1677-09-21 .. 2262-04-11)
valid_timestamp(f) ==
    /\ f.month \in 1..12
    /\ f.day >= 1
    /\ f.day <= days_in_month(f.year, f.month)
    /\ f.hour \in 0..23
    /\ f.minute \in 0..59
    /\ f.second \in 0..59
    /\ \/ f.year \in 1678..2261
       \/ f.year = 1677 /\ (f.month > 9 \/ (f.month = 9 /\ f.day >= 22))
       \/ f.year = 2262 /\ (f.month < 4 \/ (f.month = 4 /\ f.day <= 10))

\* dateutil's reading of a six-digit token as three two-digit numbers
\* (YYMMDD / DDMMYY / MMDDYY, dayfirst and yearfirst both false), with its
\* two-digit year pivot (within fifty years of the current year)
six_digit_fields(s) ==
    LET a == digits_int(SubSeq(s, 1, 2))
        b == digits_int(SubSeq(s, 3, 4))
        c == digits_int(SubSeq(s, 5, 6))
        conv(y) == IF 2000 + y >= 2026 + 50 THEN 1900 + y ELSE 2000 + y
    IN  IF a > 31 THEN [NoFields EXCEPT !.year = conv(a), !.month = b, !.day = c,
                                       !.hour = 0, !.minute = 0, !.second = 0]
        ELSE IF a > 12 THEN [NoFields EXCEPT !.year = conv(c), !.month = b, !.day = a,
                                            !.hour = 0, !.minute = 0, !.second = 0]
        ELSE [NoFields EXCEPT !.year = conv(c), !.month = a, !.day = b,
                              !.hour = 0, !.minute = 0, !.second = 0]

\* "HH:MM:SS" at the start of a text; NoFields when the text is not one
time_fields(s) ==
    IF /\ Len(s) = 8
       /\ IsDigitText(SubSeq(s, 1, 2)) /\ s[3] = ":"
       /\ IsDigitText(SubSeq(s, 4, 5)) /\ s[6] = ":"
       /\ IsDigitText(SubSeq(s, 7, 8))
    THEN [NoFields EXCEPT !.hour = digits_int(SubSeq(s, 1, 2)),
                          !.minute = digits_int(SubSeq(s, 4, 5)),
                          !.second = digits_int(SubSeq(s, 7, 8))]
    ELSE NoFields

\* the fields of a text pandas reads: YYYY, YYYYMMDD, YYYYMMDDHHMMSS,
\* YYYY-MM, YYYY-MM-DD and YYYY/MM/DD with an optional " HH:MM:SS", and six
\* digits; NoFields for any other text
pandas_fields(s) ==
    LET n == Len(s)
        midnight == [NoFields EXCEPT !.hour = 0, !.minute = 0, !.second = 0]
    IN  IF IsDigitText(s) /\ n = 4
        THEN [midnight EXCEPT !.year = digits_int(s), !.month = 1, !.day = 1]
        ELSE IF IsDigitText(s) /\ n = 6 THEN six_digit_fields(s)
        ELSE IF IsDigitText(s) /\ n = 8
        THEN [midnight EXCEPT !.year = digits_int(SubSeq(s, 1, 4)),
                              !.month = digits_int(SubSeq(s, 5, 6)),
                              !.day = digits_int(SubSeq(s, 7, 8))]
        ELSE IF IsDigitText(s) /\ n = 14
        THEN [year |-> digits_int(SubSeq(s, 1, 4)),
              month |-> digits_int(SubSeq(s, 5, 6)),
              day |-> digits_int(SubSeq(s, 7, 8)),
              hour |-> digits_int(SubSeq(s, 9, 10)),
              minute |-> digits_int(SubSeq(s, 11, 12)),
              second |-> digits_int(SubSeq(s, 13, 14))]
        ELSE IF /\ n = 7 /\ IsDigitText(SubSeq(s, 1, 4)) /\ s[5] = "-"
                /\ IsDigitText(SubSeq(s, 6, 7))
        THEN [midnight EXCEPT !.year = digits_int(SubSeq(s, 1, 4)),
                              !.month = digits_int(SubSeq(s, 6, 7)), !.day = 1]
        ELSE IF /\ n \in {10, 19}
                /\ IsDigitText(SubSeq(s, 1, 4))
                /\ s[5] \in {"-", "/"} /\ s[8] = s[5]
                /\ IsDigitText(SubSeq(s, 6, 7))
                /\ IsDigitText(SubSeq(s, 9, 10))
        THEN LET ymd == [midnight EXCEPT !.year = digits_int(SubSeq(s, 1, 4)),
                                        !.month = digits_int(SubSeq(s, 6, 7)),
                                        !.day = digits_int(SubSeq(s, 9, 10))]
                 hms == time_fields(SubSeq(s, 12, n))
             IN  IF n = 10 THEN ymd
                 ELSE IF s[11] = " " /\ hms.hour # -1
                 THEN [ymd EXCEPT !.hour = hms.hour, !.minute = hms.minute,
                                  !.second = hms.second]
                 ELSE NoFields
        ELSE NoFields

\* lines 176-188: pd.to_datetime(date_str, errors='coerce', dayfirst=False);
\* NoFields is NaT, and also what is left when the import fails
pd_to_datetime(s, available) ==
    IF ~available THEN NoFields
    ELSE LET f == pandas_fields(s)
         IN  IF f.year # -1 /\ valid_timestamp(f) THEN f ELSE NoFields

\* lines 191-214: the fields read from the digits of the text
manual_fields(s) ==
    LET combined == re_findall_digits(s)
        n == Len(combined)
    IN  IF n >= 8
        THEN LET ymd == [NoFields EXCEPT !.year = digits_int(SubSeq(combined, 1, 4)),
                                        !.month = digits_int(SubSeq(combined, 5, 6)),
                                        !.day = digits_int(SubSeq(combined, 7, 8))]
             IN  IF n >= 14
                 THEN [ymd EXCEPT !.hour = digits_int(SubSeq(combined, 9, 10)),
                                  !.minute = digits_int(SubSeq(combined, 11, 12)),
                                  !.second = digits_int(SubSeq(combined, 13, 14))]
                 ELSE ymd
        ELSE IF n = 6
        THEN [NoFields EXCEPT !.year = digits_int(SubSeq(combined, 1, 4)),
                              !.month = digits_int(SubSeq(combined, 5, 6))]
        ELSE IF n = 4
        THEN [NoFields EXCEPT !.year = digits_int(combined), !.month = 1]
        ELSE NoFields

\* lines 166-214: the fields, by the three parsers in their order
parse_date(s, available) ==
    LET cn == cn_date_match(s)
    IN  IF cn # <<>>
        THEN [NoFields EXCEPT !.year = digits_int(cn[1]), !.month = digits_int(cn[2]),
                              !.day = digits_int(cn[3])]
        ELSE LET dt == pd_to_datetime(s, available)
             IN  IF dt.year # -1 THEN dt ELSE manual_fields(s)

\* clamp_date that checks the month only
clamp_date_month_only(f) ==
    [f EXCEPT !.month = IF f.month = -1 \/ ~(1 <= f.month /\ f.month <= 12) THEN 1 ELSE f.month,
              !.day = IF f.day = -1 THEN 1 ELSE f.day]

\* lines 219-223
clamp_date(f) ==
    [f EXCEPT !.month = IF f.month = -1 \/ ~(1 <= f.month /\ f.month <= 12) THEN 1 ELSE f.month,
              !.day = IF f.day = -1 \/ ~(1 <= f.day /\ f.day <= 31) THEN 1 ELSE f.day]

\* lines 225-237; the fields are clamped, so month and day are truthy
render_date(f, fmt, s) ==
    LET ymd_ok == f.year # 0
        or0(x) == IF x = -1 THEN 0 ELSE x
    IN  IF fmt = YYYYMMDD /\ ymd_ok
        THEN fmt_int(f.year, 4) \o fmt_int(f.month, 2) \o fmt_int(f.day, 2)
        ELSE IF fmt = YYYY_MM_DD /\ ymd_ok
        THEN fmt_int(f.year, 4) \o <<"-">> \o fmt_int(f.month, 2) \o <<"-">> \o fmt_int(f.day, 2)
        ELSE IF fmt = YYYY_MM_DD_HH_MM_SS /\ ymd_ok
        THEN fmt_int(f.year, 4) \o <<"-">> \o fmt_int(f.month, 2) \o <<"-">> \o fmt_int(f.day, 2)
             \o <<" ">> \o
             (IF f.hour # -1
              THEN fmt_int(f.hour, 2) \o <<":">> \o fmt_int(or0(f.minute), 2)
                   \o <<":">> \o fmt_int(or0(f.second), 2)
              ELSE <<"0","0",":","0","0",":","0","0">>)
        ELSE IF fmt = YYYYMM /\ ymd_ok
        THEN fmt_int(f.year, 4) \o fmt_int(f.month, 2)
        ELSE s

normalize_date(v, fmt, available) ==
    IF v.tag = "none" THEN NoneV
    ELSE LET s == strip(py_str(v))
         IN  IF s = <<>> \/ lower(s) \in {<<"n","a","n">>, <<"n","a","t">>, <<"n","o","n","e">>}
             THEN NoneV
             ELSE LET f == parse_date(s, available)
                  IN  IF f.year = -1 THEN Str(s)
                      ELSE Str(render_date(clamp_date(f), fmt, s))

---------------------------------------------------------------------------
(* Inputs of normalize_date *)

DateYears == { <<"2","0","2","4">>, <<"2","0","1","2">>, <<"1","9","9","9">>,
               <<"0","0","0","0">> }

DateMonths == { <<"0","1">>, <<"0","2">>, <<"1","2">>, <<"1","3">> }

DateDays == { <<"0","1">>, <<"2","0">>, <<"3","1">>, <<"3","2">> }

DateTimes == { <<"1","2",":","3","4",":","5","6">>, <<"2","5",":","6","1",":","6","1">> }

DateTexts ==
    {y \o m \o d : y \in DateYears, m \in DateMonths, d \in DateDays}
    \cup {y \o <<sep>> \o m \o <<sep>> \o d :
              y \in DateYears, m \in DateMonths, d \in DateDays, sep \in {"-", "/"}}
    \cup {y \o <<NIAN>> \o m \o <<YUE>> \o d \o <<RI>> :
              y \in DateYears, m \in DateMonths, d \in DateDays}
    \cup {y \o <<"-">> \o m \o <<"-">> \o d \o <<" ">> \o tm :
              y \in DateYears, m \in DateMonths, d \in DateDays, tm \in DateTimes}
    \cup {y \o m \o d \o <<"1","2","3","4","5","6">> :
              y \in DateYears, m \in DateMonths, d \in {<<"0","1">>}}
    \cup {y \o m : y \in DateYears, m \in DateMonths}
    \cup {y \o <<"-">> \o m : y \in DateYears, m \in DateMonths}
    \cup DateYears
    \cup { <<"2","0","2","4",NIAN,"1",YUE,"1",RI>>,
           <<"2","0","2","4",NIAN,"1",YUE,"1",RI," ","1","0",":","3","0">>,
           <<"2","0","2","4",NIAN,"1",YUE>>,
           <<"U622A","U81F3","2","0","2","4",NIAN,"1",YUE,"1",RI>>,
           <<"U622A","U81F3","2","0","2","4",NIAN,"1","2",YUE,"3","1",RI>>,
           <<" ","2","0","2","4","-","0","1","-","0","1"," ">>,
           <<>>, <<" ">>, <<"n","a","n">>, <<"N","a","T">>, <<"N","o","n","e">>,
           <<"a","b","c">>, <<"-">>, <<"1","2","3","4","5">>,
           <<"2","0","2","4","0","1","0">> }

DateInputs == {NoneV} \cup {Str(s) : s \in DateTexts} \cup {IntV(20240101), IntV(201201)}

InitDate ==
    /\ pandas_available \in BOOLEAN
    /\ date_str \in DateInputs
    /\ date_format = YYYY_MM_DD
    /\ date_result = NoneV
    /\ date_again = NoneV
    /\ date_pc = "ready"

IdleDate ==
    /\ pandas_available = FALSE
    /\ date_str = NoneV
    /\ date_format = YYYY_MM_DD
    /\ date_result = NoneV
    /\ date_again = NoneV
    /\ date_pc = "idle"

\* a caller normalizes a date
NormalizeDate ==
    /\ date_pc = "ready"
    /\ \E fmt \in DateFormat :
          /\ date_format' = fmt
          /\ date_result' = normalize_date(date_str, fmt, pandas_available)
    /\ date_pc' = "done"
    /\ UNCHANGED <<pandas_available, date_str, date_again>>
    /\ UNCHANGED <<codeVars, numVars, resolverVars, validatorVars, orchVars, builderVars, downloaderVars, parserVars>>

\* the caller normalizes the result once more, to the same form
NormalizeDateAgain ==
    /\ date_pc = "done"
    /\ date_again' = normalize_date(date_result, date_format, pandas_available)
    /\ date_pc' = "again"
    /\ UNCHANGED <<pandas_available, date_str, date_format, date_result>>
    /\ UNCHANGED <<codeVars, numVars, resolverVars, validatorVars, orchVars, builderVars, downloaderVars, parserVars>>


---------------------------------------------------------------------------
(* Claims about normalize_date *)

\* C6: normalize_date is idempotent for each target form: normalizing the
\* result again to the same form gives the result; and 2024年1月1日 gives
\* 2024-01-01, 20240101 gives 20240101 in YYYYMMDD, and 2024-01-01 12:34:56
\* is unchanged in the date-time form.
C6_DateIdempotent ==
    /\ date_pc = "again" => date_again = date_result
    /\ (/\ date_pc \in {"done", "again"}
        /\ date_str = Str(<<"2","0","2","4",NIAN,"1",YUE,"1",RI>>)
        /\ date_format = YYYY_MM_DD) =>
           date_result = Str(<<"2","0","2","4","-","0","1","-","0","1">>)
    /\ (/\ date_pc \in {"done", "again"}
        /\ date_str = Str(<<"2","0","2","4","0","1","0","1">>)
        /\ date_format = YYYYMMDD) =>
           date_result = date_str
    /\ (/\ date_pc \in {"done", "again"}
        /\ date_str = Str(<<"2","0","2","4","-","0","1","-","0","1"," ",
                            "1","2",":","3","4",":","5","6">>)
        /\ date_format = YYYY_MM_DD_HH_MM_SS) =>
           date_result = date_str

---------------------------------------------------------------------------
(* FieldFormatter.normalize_float, FieldFormatter.normalize_int *)

RECURSIVE Pow10(_)
Pow10(n) == IF n = 0 THEN 1 ELSE 10 * Pow10(n - 1)

RECURSIVE Fin(_, _)
\* the float num / 10^scale
Fin(num, scale) ==
    IF scale > 0 /\ num % 10 = 0 THEN Fin(num \div 10, scale - 1)
    ELSE FloatV("fin", num, scale)

\* s.replace(old, '')
str_remove(s, old) == SelectSeq(s, LAMBDA c : c # old)

\* s.replace(old, new) for single characters
str_replace(s, old, new) == [i \in 1..Len(s) |-> IF s[i] = old THEN new ELSE s[i]]

contains(s, c) == \E i \in 1..Len(s) : s[i] = c

count_char(s, c) == Len(SelectSeq(s, LAMBDA x : x = c))

\* re.sub(r'[^\d\.\-\,]', '', s)
re_sub_non_numeric(s) == SelectSeq(s, LAMBDA c : c \in Digit \cup {".", "-", ","})

RECURSIVE lstrip_zeros(_)
lstrip_zeros(s) == IF s # <<>> /\ Head(s) = "0" THEN lstrip_zeros(Tail(s)) ELSE s

\* float(s) for a text of digits, '.' and '-': NoneV stands for ValueError.
\* A double holds no integer of 310 digits or more: float() gives inf.
py_float(s) ==
    LET neg == s # <<>> /\ Head(s) = "-"
        body == IF neg THEN Tail(s) ELSE s
        dot == IF contains(body, ".")
               THEN CHOOSE i \in 1..Len(body) : body[i] = "."
               ELSE Len(body) + 1
        int_part == SubSeq(body, 1, dot - 1)
        frac_part == SubSeq(body, dot + 1, Len(body))
    IN  IF \/ contains(body, "-")
           \/ count_char(body, ".") > 1
           \/ int_part \o frac_part = <<>>
        THEN NoneV
        ELSE IF Len(lstrip_zeros(int_part)) >= 310
        THEN (IF neg THEN NegInf ELSE PosInf)
        ELSE Fin((IF neg THEN -1 ELSE 1) * digits_int(int_part \o frac_part), Len(frac_part))

\* result / 100.0
div_100(f) == IF f.kind = "fin" THEN Fin(f.num, f.scale + 2) ELSE f

\* float(value) of a native int or float
native_float(v) == IF v.tag = "int" THEN Fin(v.val, 0) ELSE v

\* lines 261-279: the commas of the cleaned text
resolve_commas(s) ==
    IF contains(s, ",") /\ contains(s, ".") THEN str_remove(s, ",")
    ELSE IF contains(s, ",")
    THEN LET parts == count_char(s, ",") + 1
             comma == CHOOSE i \in 1..Len(s) : s[i] = ","
         IN  IF parts > 2 THEN str_remove(s, ",")
             ELSE IF Len(s) - comma = 3 THEN str_remove(s, ",")
             ELSE str_replace(s, ",", ".")
    ELSE s

is_null_number(value_str) ==
    \/ value_str = <<>>
    \/ value_str = <<"-">>
    \/ lower(value_str) \in {<<"n","a","n">>, <<"n","o","n","e">>}

normalize_float(value) ==
    IF value.tag = "none" THEN NoneV
    ELSE IF value.tag \in {"int", "float"} THEN native_float(value)
    ELSE LET value_str == strip(value.val)
         IN  IF is_null_number(value_str) THEN NoneV
             ELSE LET is_percent == contains(value_str, "%")
                      cleaned == resolve_commas(re_sub_non_numeric(str_remove(value_str, "%")))
                      result == py_float(cleaned)
                  IN  IF result = NoneV THEN NoneV
                      ELSE IF is_percent THEN div_100(result)
                      ELSE result

\* round(f) of a finite float: the nearest integer, a half to the even one
round_half_even(f) ==
    LET p == Pow10(f.scale)
        q == f.num \div p
        r == f.num % p
    IN  IF 2 * r < p THEN q
        ELSE IF 2 * r > p THEN q + 1
        ELSE IF q % 2 = 0 THEN q ELSE q + 1

\* int(round(f)): round() raises on an infinity and on not-a-number
int_round(f) ==
    IF f.kind = "inf" THEN Raise("OverflowError")
    ELSE IF f.kind = "nan" THEN Raise("ValueError")
    ELSE IntV(round_half_even(f))

normalize_int(value) ==
    IF value.tag = "none" THEN NoneV
    ELSE IF value.tag = "int" THEN value
    ELSE IF value.tag = "float" THEN int_round(value)
    ELSE LET value_str == strip(value.val)
         IN  IF is_null_number(value_str) THEN NoneV
             ELSE LET float_val == normalize_float(Str(value_str))
                  IN  IF float_val # NoneV THEN int_round(float_val)
                      ELSE NoneV

---------------------------------------------------------------------------
(* Inputs of normalize_float and normalize_int *)

MaxNumLen == 4

NumChars == {"0", "1", "2", "5", ",", ".", "-", "%"}

RECURSIVE TextsUpTo(_, _)
\* the texts over an alphabet, up to a length
TextsUpTo(chars, n) ==
    IF n = 0 THEN {<<>>}
    ELSE LET shorter == TextsUpTo(chars, n - 1)
         IN  shorter \cup {<<c>> \o s : c \in chars, s \in {x \in shorter : Len(x) = n - 1}}

OverlongDigits == [i \in 1..310 |-> "9"]

NumTexts ==
    TextsUpTo(NumChars, MaxNumLen)
    \cup { <<"1",",","2","3","4",".","5","6">>, <<"1","0","0","%">>, <<"-","7","8",".","9">>,
           <<"1",",","2","3","4">>, <<"1",",","2","3","4",",","5","6","7">>,
           <<"n","a","n">>, <<"N","o","n","e">>, <<" ","1","2"," ">>, <<"a","b","c">>,
           <<"$","1","2",".","5">>, <<"+","5">>, <<"1","e","5">>, <<" ">>,
           OverlongDigits, <<"-">> \o OverlongDigits }

NumInputs ==
    {NoneV} \cup {Str(s) : s \in NumTexts}
    \cup {IntV(n) : n \in {-3, 0, 7}}
    \cup {Fin(25, 1), Fin(35, 1), Fin(-5, 1), Fin(-26, 1), Fin(149, 2), PosInf, NegInf, NaN}

InitNum ==
    /\ num_value \in NumInputs
    /\ num_result = NoneV
    /\ num_pc = "ready"

IdleNum ==
    /\ num_value = NoneV
    /\ num_result = NoneV
    /\ num_pc = "idle"

\* a caller normalizes a value to a float
NormalizeFloat ==
    /\ num_pc = "ready"
    /\ num_result' = normalize_float(num_value)
    /\ num_pc' = "float"
    /\ UNCHANGED num_value
    /\ UNCHANGED <<codeVars, dateVars, resolverVars, validatorVars, orchVars, builderVars, downloaderVars, parserVars>>

\* a caller normalizes a value to an int
NormalizeInt ==
    /\ num_pc = "ready"
    /\ num_result' = normalize_int(num_value)
    /\ num_pc' = "int"
    /\ UNCHANGED num_value
    /\ UNCHANGED <<codeVars, dateVars, resolverVars, validatorVars, orchVars, builderVars, downloaderVars, parserVars>>

---------------------------------------------------------------------------
(* Claims about normalize_float and normalize_int *)

\* the reference of the specification for text: the cleaned text with its
\* commas read as the reference reads them
RefCommas(kept) ==
    LET has_comma == \E i \in 1..Len(kept) : kept[i] = ","
        has_dot == \E i \in 1..Len(kept) : kept[i] = "."
        first == CHOOSE i \in 1..Len(kept) :
                     kept[i] = "," /\ \A j \in 1..(i - 1) : kept[j] # ","
        second == SubSeq(kept, first + 1, Len(kept))
        segments == Cardinality({i \in 1..Len(kept) : kept[i] = ","}) + 1
        no_commas == SelectSeq(kept, LAMBDA c : c # ",")
    IN  IF has_comma /\ has_dot THEN no_commas
        ELSE IF ~has_comma THEN kept
        ELSE IF segments > 2 THEN no_commas
        ELSE IF Len(second) = 3 /\ IsDigits(second) THEN no_commas
        ELSE [i \in 1..Len(kept) |-> IF kept[i] = "," THEN "." ELSE kept[i]]

RefFloat(text) ==
    LET s == strip(text)
        kept == SelectSeq(s, LAMBDA c : c \in Digit \cup {".", "-", ","})
        parsed == py_float(RefCommas(kept))
    IN  IF s = <<>> \/ s = <<"-">> \/ lower(s) \in {<<"n","a","n">>, <<"n","o","n","e">>}
        THEN NoneV
        ELSE IF parsed = NoneV THEN NoneV
        ELSE IF (\E i \in 1..Len(s) : s[i] = "%") /\ parsed.kind = "fin"
        THEN Fin(parsed.num, parsed.scale + 2)
        ELSE parsed

\* C7: for text, normalize_float is the reference: null-like or "-" gives
\* None; "%" is removed and the result divided by 100; only digits, '.', '-'
\* and ',' are kept; with ',' and '.' the commas go; with commas only, more
\* than two segments or two segments with a 3-digit second one drop the
\* comma, else it becomes the decimal point; a parse failure gives None.
\* So "1,234.56" gives 1234.56, "100%" gives 1.0, "-78.9" gives -78.9.
C7_FloatReference ==
    (num_pc = "float" /\ num_value.tag = "str") =>
        /\ num_result = RefFloat(num_value.val)
        /\ num_value.val = <<"1",",","2","3","4",".","5","6">> => num_result = Fin(123456, 2)
        /\ num_value.val = <<"1","0","0","%">> => num_result = Fin(1, 0)
        /\ num_value.val = <<"-","7","8",".","9">> => num_result = Fin(-789, 1)

\* n is the integer nearest to the finite float f, a half going to the even one
IsNearestInt(n, f) ==
    LET p == Pow10(f.scale)
        twice == IF 2 * (n * p - f.num) < 0 THEN 2 * (f.num - n * p) ELSE 2 * (n * p - f.num)
    IN  /\ f.kind = "fin"
        /\ twice <= p
        /\ twice = p => n % 2 = 0

\* C8: normalize_int of text is None exactly when normalize_float is None and
\* otherwise the integer nearest to normalize_float's result (a half to the
\* even neighbour); a native int comes back as is, a native float rounded to
\* the nearest integer; normalize_int("1,234.56") is 1235.
C8_IntRoundsFloat ==
    num_pc = "int" =>
        /\ num_value.tag = "str" =>
               LET f == normalize_float(num_value)
               IN  IF f = NoneV THEN num_result = NoneV
                   ELSE num_result.tag = "int" /\ IsNearestInt(num_result.val, f)
        /\ num_value.tag = "int" => num_result = num_value
        /\ num_value.tag = "float" =>
               num_result.tag = "int" /\ IsNearestInt(num_result.val, num_value)
        /\ num_value = Str(<<"1",",","2","3","4",".","5","6">>) => num_result = IntV(1235)

\* C9: every value normalizer returns a value or None for every input and
\* never raises.
C9_NormalizersTotal ==
    /\ code_result.tag # "raise"
    /\ code_again.tag # "raise"
    /\ date_result.tag # "raise"
    /\ date_again.tag # "raise"
    /\ num_result.tag # "raise"

---------------------------------------------------------------------------
(* FieldMapper.get_canonical_name *)

\* the dictionary with the spelling U65E5 U671F listed under a second canonical
SHARED_ALIAS_FIELD_EQUIVALENTS ==
    << <<<<"d","a","t","e">>, << <<"U65E5","U671F">>, <<"D","A","T","E">> >> >>,
       <<<<"s","y","m","b","o","l">>, << <<"U4EE3","U7801">>, <<"c","o","d","e">> >> >>,
       <<<<"t","r","a","d","e","_","d","a","y">>, << <<"U65E5","U671F">> >> >> >>

\* the dictionary FieldMapper.__init__ builds, in insertion order:
\* <<canonical, equivalents>>
DEFAULT_FIELD_EQUIVALENTS ==
    << <<<<"d","a","t","e">>,
        <<<<"U65E5","U671F">>, <<"D","A","T","E">>, <<"T","R","A","D","E","_","D","A","T","E">>,
           <<"U5E74","U6708">>, <<"U53D1","U5E03","U65F6","U95F4">>, <<"U65F6","U95F4">>,
           <<"d","a","t","e","t","i","m","e">>, <<"U4EA4","U6613","U65E5","U671F">>,
           <<"U66F4","U65B0","U65E5","U671F">>, <<"U516C","U544A","U65E5","U671F">>,
           <<"U4E0A","U5E02","U65E5","U671F">>, <<"U6210","U7ACB","U65E5","U671F">>,
           <<"U62A5","U544A","U671F">>, <<"U53D8","U52A8","U65E5","U671F">>,
           <<"U51C0","U503C","U65E5","U671F">>, <<"U7EDF","U8BA1","U65F6","U95F4">>,
           <<"s","t","a","r","t","_","d","a","t","e">>, <<"e","n","d","_","d","a","t","e">>,
           <<"t","r","a","d","e","d","a","t","e">>,
           <<"r","e","p","o","r","t","_","d","a","t","e">>,
           <<"R","E","P","O","R","T","_","D","A","T","E">>, <<"U53D1","U5E03","U65E5","U671F">>,
           <<"D","A","T","E","_","T","Y","P","E","_","C","O","D","E">>,
           <<"S","T","D","_","R","E","P","O","R","T","_","D","A","T","E">>,
           <<"S","T","A","R","T","_","D","A","T","E">>,
           <<"N","O","T","I","C","E","_","D","A","T","E">>,
           <<"F","I","N","A","N","C","I","A","L","_","D","A","T","E">>,
           <<"D","A","T","E","_","T","Y","P","E">>,
           <<"u","p","d","a","t","e","_","t","i","m","e">>, <<"U6708","U4EFD">>,
           <<"U5F53","U6708">>>>>>,
    <<<<"s","y","m","b","o","l">>,
        <<<<"U4EE3","U7801">>, <<"U80A1","U7968","U4EE3","U7801">>,
           <<"U57FA","U91D1","U4EE3","U7801">>, <<"U6307","U6570","U4EE3","U7801">>,
           <<"U503A","U5238","U4EE3","U7801">>, <<"U671F","U8D27","U4EE3","U7801">>,
           <<"U5408","U7EA6","U4EE3","U7801">>, <<"c","o","d","e">>,
           <<"s","t","o","c","k","_","c","o","d","e">>, <<"f","u","n","d","_","c","o","d","e">>,
           <<"U8BC1","U5238","U4EE3","U7801">>, <<"s","t","o","c","k">>,
           <<"b","o","n","d","_","c","o","d","e">>, <<"b","o","n","d","_","n","a","m","e">>,
           <<"b","o","n","d","_","c","o","d","e">>>>>>,
    <<<<"n","a","m","e">>,
        <<<<"U540D","U79F0">>, <<"U80A1","U7968","U540D","U79F0">>,
           <<"U57FA","U91D1","U540D","U79F0">>, <<"U6307","U6570","U540D","U79F0">>,
           <<"U503A","U5238","U540D","U79F0">>, <<"U671F","U8D27","U540D","U79F0">>,
           <<"U5546","U54C1">>, <<"t","i","t","l","e">>, <<"U80A1","U7968","U7B80","U79F0">>,
           <<"U57FA","U91D1","U7B80","U79F0">>, <<"U503A","U5238","U7B80","U79F0">>,
           <<"U8BC1","U5238","U7B80","U79F0">>, <<"U7B80","U79F0">>,
           <<"r","e","p","o","r","t","_","n","a","m","e">>,
           <<"q","u","a","r","t","e","r","_","n","a","m","e">>,
           <<"m","e","t","r","i","c","_","n","a","m","e">>,
           <<"S","E","C","U","R","I","T","Y","_","N","A","M","E","_","A","B","B","R">>,
           <<"S","T","D","_","I","T","E","M","_","N","A","M","E">>,
           <<"I","T","E","M","_","N","A","M","E">>,
           <<"R","E","P","O","R","T","_","D","A","T","E","_","N","A","M","E">>>>>>,
    <<<<"c","l","o","s","e">>,
        <<<<"U6536","U76D8","U4EF7">>, <<"C","L","O","S","E">>, <<"U6700","U65B0","U4EF7">>,
           <<"U73B0","U4EF7">>, <<"U6536","U76D8">>>>>>,
    <<<<"o","p","e","n">>,
        <<<<"U5F00","U76D8","U4EF7">>, <<"O","P","E","N">>, <<"U4ECA","U5F00">>,
           <<"U5F00","U76D8">>>>>>,
    <<<<"h","i","g","h">>,
        <<<<"U6700","U9AD8","U4EF7">>, <<"H","I","G","H">>, <<"U6700","U9AD8">>>>>>,
    <<<<"l","o","w">>,
        <<<<"U6700","U4F4E","U4EF7">>, <<"L","O","W">>, <<"U6700","U4F4E">>>>>>,
    <<<<"v","o","l","u","m","e">>,
        <<<<"U6210","U4EA4","U91CF">>, <<"V","O","L","U","M","E">>,
           <<"U6210","U4EA4","U91CF","(","U624B",")">>>>>>,
    <<<<"a","m","o","u","n","t">>,
        <<<<"U6210","U4EA4","U989D">>, <<"A","M","O","U","N","T">>,
           <<"U6210","U4EA4","U989D","(","U4E07",")">>>>>>,
    <<<<"c","h","a","n","g","e","_","p","c","t">>,
        <<<<"U6DA8","U8DCC","U5E45">>, <<"U6DA8","U8DCC">>,
           <<"U6DA8","U8DCC","U5E45","(","%",")">>, <<"c","h","a","n","g","e">>,
           <<"U53D8","U52A8">>>>>>,
    <<<<"c","h","a","n","g","e","_","a","m","o","u","n","t">>,
        <<<<"U6DA8","U8DCC","U989D">>, <<"U53D8","U5316","U503C">>>>>>,
    <<<<"a","c","t","u","a","l">>,
        <<<<"U4ECA","U503C">>, <<"U73B0","U503C">>, <<"U6700","U65B0","U503C">>>>>>,
    <<<<"p","r","e","v","i","o","u","s">>,
        <<<<"U524D","U503C">>, <<"U6628","U6536">>>>>>,
    <<<<"f","o","r","e","c","a","s","t">>,
        <<<<"U9884","U6D4B","U503C">>, <<"U9884","U671F","U503C">>, <<"U9884","U6D4B">>>>>>,
    <<<<"m","a","r","k","e","t">>,
        <<<<"U5E02","U573A">>, <<"e","x","c","h","a","n","g","e">>, <<"U4EA4","U6613","U6240">>,
           <<"U4EA4","U6613","U5E02","U573A">>>>>>,
    <<<<"a","d","j","u","s","t">>,
        <<<<"U590D","U6743","U7C7B","U578B">>, <<"U590D","U6743">>>>>>,
    <<<<"p","e","r","i","o","d">>,
        <<<<"U5468","U671F">>, <<"f","r","e","q","u","e","n","c","y">>>>>>,
    <<<<"m","a","r","k","e","t","_","c","a","p">>,
        <<<<"U603B","U5E02","U503C">>, <<"U5E02","U503C">>>>>>,
    <<<<"f","l","o","a","t","_","m","a","r","k","e","t","_","c","a","p">>,
        <<<<"U6D41","U901A","U5E02","U503C">>>>>>,
    <<<<"p","e","_","r","a","t","i","o">>,
        <<<<"U5E02","U76C8","U7387">>, <<"U5E02","U76C8","U7387","-","U52A8","U6001">>>>>>,
    <<<<"p","b","_","r","a","t","i","o">>,
        <<<<"U5E02","U51C0","U7387">>>>>>,
    <<<<"t","u","r","n","o","v","e","r","_","r","a","t","e">>,
        <<<<"U6362","U624B","U7387">>>>>>,
    <<<<"n","e","t","_","v","a","l","u","e">>,
        <<<<"U5355","U4F4D","U51C0","U503C">>>>>>,
    <<<<"d","a","i","l","y","_","g","r","o","w","t","h">>,
        <<<<"U65E5","U589E","U957F","U7387">>>>>>,
    <<<<"f","u","n","d","_","m","a","n","a","g","e","r">>,
        <<<<"U57FA","U91D1","U7ECF","U7406">>>>>>,
    <<<<"f","u","n","d","_","c","o","m","p","a","n","y">>,
        <<<<"U57FA","U91D1","U516C","U53F8">>>>>>,
    <<<<"v","a","l","u","e">>,
        <<<<"U6570","U503C">>, <<"U503C">>,
           <<"m","i","d","_","c","o","n","v","e","r","t","_","v","a","l","u","e">>>>>>,
    <<<<"y","e","a","r">>,
        <<<<"U5E74">>>>>>,
    <<<<"m","o","n","t","h">>,
        <<<<"U6708">>>>>>,
    <<<<"i","s","s","u","e","_","y","e","a","r">>,
        <<<<"U53D1","U884C","U5E74","U4EFD">>>>>>,
    <<<<"i","n","d","i","c","a","t","o","r">>,
        <<<<"U6307","U6807">>, <<"i","t","e","m">>>>>>,
    <<<<"a","m","p","l","i","t","u","d","e">>,
        <<<<"U632F","U5E45">>>>>>,
    <<<<"c","h","a","n","g","e","_","p","c","t","_","1","y">>,
        <<<<"U8FD1","1","U5E74","U6DA8","U8DCC","U5E45">>>>>>,
    <<<<"c","h","a","n","g","e","_","p","c","t","_","3","m">>,
        <<<<"U8FD1","3","U6708","U6DA8","U8DCC","U5E45">>>>>>,
    <<<<"c","h","a","n","g","e","_","p","c","t","_","6","m">>,
        <<<<"U8FD1","6","U6708","U6DA8","U8DCC","U5E45">>>>>>,
    <<<<"c","h","a","n","g","e","_","p","c","t","_","2","y">>,
        <<<<"U8FD1","2","U5E74","U6DA8","U8DCC","U5E45">>>>>>,
    <<<<"c","h","a","n","g","e","_","p","c","t","_","3","y">>,
        <<<<"U8FD1","3","U5E74","U6DA8","U8DCC","U5E45">>>>>>,
    <<<<"i","n","d","u","s","t","r","y">>,
        <<<<"U6240","U5C5E","U884C","U4E1A">>, <<"U884C","U4E1A">>>>>>,
    <<<<"s","h","a","r","e","h","o","l","d","e","r","_","n","a","m","e">>,
        <<<<"U80A1","U4E1C","U540D","U79F0">>>>>>,
    <<<<"s","h","a","r","e","h","o","l","d","e","r","_","t","y","p","e">>,
        <<<<"U80A1","U4E1C","U7C7B","U578B">>>>>>,
    <<<<"v","o","l","u","m","e","_","r","a","t","i","o">>,
        <<<<"U91CF","U6BD4">>>>>>,
    <<<<"f","e","e">>,
        <<<<"U624B","U7EED","U8D39">>>>>>,
    <<<<"c","h","a","n","g","e","_","s","p","e","e","d">>,
        <<<<"U6DA8","U901F">>>>>>,
    <<<<"l","o","c","a","t","i","o","n">>,
        <<<<"U6CE8","U518C","U5730">>>>>>,
    <<<<"s","t","a","t","u","s">>,
        <<<<"U7533","U8D2D","U72B6","U6001">>, <<"U8D4E","U56DE","U72B6","U6001">>>>>>,
    <<<<"t","y","p","e">>,
        <<<<"U7C7B","U578B">>, <<"U54C1","U79CD">>>>>>,
    <<<<"i","n","d","e","x">>,
        <<<<"U6307","U6570">>>>>>,
    <<<<"t","o","t","a","l","_","s","h","a","r","e","s">>,
        <<<<"U603B","U80A1","U672C">>>>>>,
    <<<<"i","s","s","u","e","_","p","r","i","c","e">>,
        <<<<"U53D1","U884C","U4EF7","U683C">>>>>>,
    <<<<"i","n","s","t","i","t","u","t","i","o","n","_","n","a","m","e">>,
        <<<<"U673A","U6784","U540D","U79F0">>, <<"U8425","U4E1A","U90E8","U540D","U79F0">>>>>>,
    <<<<"a","v","g","_","p","r","i","c","e">>,
        <<<<"U5747","U4EF7">>>>>>,
    <<<<"c","h","a","n","g","e","_","p","c","t","_","5","m">>,
        <<<<"5","U5206","U949F","U6DA8","U8DCC">>>>>>,
    <<<<"c","h","a","n","g","e","_","p","c","t","_","6","0","d">>,
        <<<<"6","0","U65E5","U6DA8","U8DCC","U5E45">>>>>>,
    <<<<"c","h","a","n","g","e","_","p","c","t","_","y","t","d">>,
        <<<<"U5E74","U521D","U81F3","U4ECA","U6DA8","U8DCC","U5E45">>>>>>,
    <<<<"h","o","l","d","i","n","g","_","v","a","l","u","e">>,
        <<<<"U6301","U80A1","U5E02","U503C">>>>>>,
    <<<<"q","v","i","x">>,
        <<>>>> >>

\* an alias table with the defects the validation pass looks for: a spelling
\* under two canonicals, and canonical names that are aliases of another
OVERLAP_FIELD_EQUIVALENTS ==
    << <<<<"o","p","e","n">>, << <<"P","R","I","C","E">>, <<"p","x">> >> >>,
       <<<<"p","r","i","c","e">>, << <<"p","x">>, <<"L","a","s","t">> >> >>,
       <<<<"l","a","s","t">>, << >> >> >>

in_list(x, list) == \E i \in 1..Len(list) : list[i] = x

\* [e.lower() for e in equivalents]
lower_all(list) == [i \in 1..Len(list) |-> lower(list[i])]

\* pd.isna(field_name) or field_name == "nan" or field_name == "" or
\* field_name == "-"
is_placeholder_name(v) ==
    \/ v.tag = "none"
    \/ v.tag = "str" /\ v.val \in {<<"n","a","n">>, <<>>, <<"-">>}

\* get_canonical_name with the two exact tests made on every canonical
\* before any case-insensitive test
RECURSIVE first_exact(_, _)
first_exact(table, name) ==
    IF table = <<>> THEN <<>>
    ELSE IF name = Head(table)[1] \/ in_list(name, Head(table)[2]) THEN Head(table)[1]
    ELSE first_exact(Tail(table), name)

RECURSIVE first_folded(_, _)
first_folded(table, name) ==
    IF table = <<>> THEN name
    ELSE IF in_list(lower(name), lower_all(Head(table)[2])) THEN Head(table)[1]
    ELSE first_folded(Tail(table), name)

lookup_canonical_two_passes(table, field_name_str) ==
    IF first_exact(table, field_name_str) # <<>> THEN first_exact(table, field_name_str)
    ELSE first_folded(table, field_name_str)

RECURSIVE lookup_canonical(_, _)
\* lines 143-152: the loop over field_equivalents.items()
lookup_canonical(table, field_name_str) ==
    IF table = <<>> THEN field_name_str
    ELSE LET canonical == Head(table)[1]
             equivalents == Head(table)[2]
         IN  IF field_name_str = canonical THEN canonical
             ELSE IF in_list(field_name_str, equivalents) THEN canonical
             ELSE IF in_list(lower(field_name_str), lower_all(equivalents)) THEN canonical
             ELSE lookup_canonical(Tail(table), field_name_str)

get_canonical_name(table, v) ==
    IF is_placeholder_name(v) THEN v
    ELSE Str(lookup_canonical(table, strip(py_str(v))))

---------------------------------------------------------------------------
(* UnifiedFieldSystem._map_to_standard_field *)

RECURSIVE find_standard_field(_, _)
\* the loop over field_equivalents.items() for a str field: the text returned
find_standard_field(table, field) ==
    IF table = <<>> THEN field
    ELSE LET standard == Head(table)[1]
             equivalents == Head(table)[2]
         IN  IF in_list(field, equivalents) \/ lower(field) = lower(standard)
             THEN standard
             ELSE find_standard_field(Tail(table), field)

\* a field that is no str is in no list of aliases, and field.lower() raises
\* on the first entry of the table
map_to_standard_field(table, field) ==
    IF field.tag = "str" THEN Str(find_standard_field(table, field.val))
    ELSE IF table = <<>> THEN field
    ELSE Raise("AttributeError")

---------------------------------------------------------------------------
(* Inputs of get_canonical_name *)

AliasTables == {DEFAULT_FIELD_EQUIVALENTS, OVERLAP_FIELD_EQUIVALENTS}

\* every spelling of a table: its canonical names and their aliases
Spellings(table) ==
    UNION {{table[i][1]} \cup {table[i][2][j] : j \in 1..Len(table[i][2])} : i \in 1..Len(table)}

FieldNameTexts ==
    LET known == UNION {Spellings(tb) : tb \in AliasTables}
    IN  known
        \cup {upper(s) : s \in known}
        \cup {lower(s) : s \in known}
        \cup {<<" ">> \o s \o <<" ">> : s \in known}
        \cup { <<>>, <<"-">>, <<"n","a","n">>, <<" ">>, <<" ","-"," ">>, <<"N","a","N">>,
               <<"f","o","o">>, <<" ","f","o","o">>, <<"F","o","o"," ">>,
               <<"S","y","m","b","o","l">>, <<"U672A","U77E5">> }

FieldNameInputs ==
    {NoneV} \cup {Str(s) : s \in FieldNameTexts} \cup {IntV(n) : n \in {0, 5}}

InitResolver ==
    /\ field_equivalents \in AliasTables
    /\ field_name \in FieldNameInputs
    /\ canonical_name = NoneV
    /\ standard_field = NoneV
    /\ resolver_pc = "ready"

IdleResolver ==
    /\ field_equivalents = DEFAULT_FIELD_EQUIVALENTS
    /\ field_name = NoneV
    /\ canonical_name = NoneV
    /\ standard_field = NoneV
    /\ resolver_pc = "idle"

\* a caller resolves a field name
GetCanonicalName ==
    /\ resolver_pc = "ready"
    /\ canonical_name' = get_canonical_name(field_equivalents, field_name)
    /\ resolver_pc' = "done"
    /\ UNCHANGED <<field_equivalents, field_name, standard_field>>
    /\ UNCHANGED <<codeVars, dateVars, numVars, validatorVars, orchVars, builderVars, downloaderVars, parserVars>>

\* a caller maps a field name with UnifiedFieldSystem._map_to_standard_field
MapToStandardField ==
    /\ resolver_pc = "ready"
    /\ standard_field' = map_to_standard_field(field_equivalents, field_name)
    /\ resolver_pc' = "mapped"
    /\ UNCHANGED <<field_equivalents, field_name, canonical_name>>
    /\ UNCHANGED <<codeVars, dateVars, numVars, validatorVars, orchVars, builderVars, downloaderVars, parserVars>>

---------------------------------------------------------------------------
(* Claims about get_canonical_name *)

\* the name matches entry i of the table: it is the canonical name, or one of
\* its aliases, or one of its aliases ignoring case
MatchesEntry(table, i, name) ==
    \/ name = table[i][1]
    \/ \E j \in 1..Len(table[i][2]) : table[i][2][j] = name
    \/ \E j \in 1..Len(table[i][2]) : lower(table[i][2][j]) = lower(name)

\* what the resolver is to return for the text name: the canonical name of
\* the first entry that matches, the text itself when none does
FirstMatch(table, name) ==
    LET hits == {i \in 1..Len(table) : MatchesEntry(table, i, name)}
    IN  IF hits = {} THEN name
        ELSE table[CHOOSE i \in hits : \A k \in hits : i <= k][1]

C11_ResolversTotal ==
    field_name.tag # "none" =>
        /\ resolver_pc = "done" => canonical_name.tag = "str"
        /\ resolver_pc = "mapped" => standard_field.tag = "str"

\* the aliases of entry i of a table
AliasesOf(table, i) == {table[i][2][j] : j \in 1..Len(table[i][2])}

\* <<i, alias>> for every alias of every entry i of a table
AliasPairs(table) ==
    UNION {{<<i, a>> : a \in AliasesOf(table, i)} : i \in 1..Len(table)}

\* C12: in FieldMapper.field_equivalents the alias lists of two different
\* canonicals share no spelling, compared exactly and ignoring case, and no
\* canonical name is an alias of a different canonical.
C12_AliasTableIntegrity ==
    (resolver_pc # "idle" /\ field_equivalents = DEFAULT_FIELD_EQUIVALENTS) =>
        LET exact == AliasPairs(field_equivalents)
            folded == {<<p[1], lower(p[2])>> : p \in exact}
        IN  /\ \A p, q \in exact : p[2] = q[2] => p[1] = q[1]
            /\ \A p, q \in folded : p[2] = q[2] => p[1] = q[1]
            /\ \A p \in exact : \A k \in 1..Len(field_equivalents) :
                   p[2] = field_equivalents[k][1] => p[1] = k

\* with the dictionary of FieldMapper an alias of date was resolved to date
C12_Witness ==
    /\ resolver_pc = "done"
    /\ field_equivalents = DEFAULT_FIELD_EQUIVALENTS
    /\ Len(field_equivalents) > 1
    /\ field_name = Str(<<"U65E5","U671F">>)
    /\ canonical_name = Str(<<"d","a","t","e">>)

---------------------------------------------------------------------------
(* FieldEquivalentsValidator.validate_equivalents_consistency *)

\* key in d, for a dict kept as the sequence of its <<key, value>> pairs
dict_has(d, key) == \E i \in 1..Len(d) : d[i][1] = key

\* d[key]
dict_get(d, key) == d[CHOOSE i \in 1..Len(d) : d[i][1] = key][2]

\* d[key] = value: a new key goes last, a known key keeps its place
dict_put(d, key, value) ==
    IF dict_has(d, key)
    THEN LET at == CHOOSE i \in 1..Len(d) : d[i][1] = key
         IN  SubSeq(d, 1, at - 1) \o <<<<key, value>>>> \o SubSeq(d, at + 1, Len(d))
    ELSE Append(d, <<key, value>>)

\* the alias loop that maps an alias already mapped to its new canonical
\* without reporting it
RECURSIVE scan_aliases_unreported(_, _, _)
scan_aliases_unreported(equivalents, canonical, field_to_standard) ==
    IF equivalents = <<>> THEN <<field_to_standard, <<>>>>
    ELSE scan_aliases_unreported(Tail(equivalents), canonical,
                                 dict_put(field_to_standard, Head(equivalents), canonical))

RECURSIVE scan_aliases(_, _, _)
\* lines 116-121: the aliases of one canonical, in order; gives
\* <<field_to_standard, the issues appended>>
scan_aliases(equivalents, canonical, field_to_standard) ==
    IF equivalents = <<>> THEN <<field_to_standard, <<>>>>
    ELSE LET alias == Head(equivalents)
         IN  IF dict_has(field_to_standard, alias)
             THEN LET rest == scan_aliases(Tail(equivalents), canonical, field_to_standard)
                      issue == [kind |-> "two_canonicals", field |-> alias,
                                first |-> dict_get(field_to_standard, alias),
                                second |-> canonical]
                  IN  IF dict_get(field_to_standard, alias) # canonical
                      THEN <<rest[1], <<issue>> \o rest[2]>>
                      ELSE rest
             ELSE scan_aliases(Tail(equivalents), canonical,
                               dict_put(field_to_standard, alias, canonical))

RECURSIVE scan_table(_, _)
\* lines 111-121: the loop over field_equivalents.items(); gives the issues
\* appended
scan_table(table, field_to_standard) ==
    IF table = <<>> THEN <<>>
    ELSE LET canonical == Head(table)[1]
             issue == [kind |-> "canonical_is_alias", field |-> canonical,
                       first |-> dict_get(field_to_standard, canonical),
                       second |-> canonical]
             found == IF /\ dict_has(field_to_standard, canonical)
                         /\ dict_get(field_to_standard, canonical) # canonical
                      THEN <<issue>>
                      ELSE <<>>
             r == scan_aliases(Head(table)[2], canonical,
                               dict_put(field_to_standard, canonical, canonical))
         IN  found \o r[2] \o scan_table(Tail(table), r[1])

\* self.field_equivalents[key] for a key of the dictionary
equivalents_of(table, key) ==
    table[CHOOSE i \in 1..Len(table) : table[i][1] = key][2]

is_canonical(table, key) == \E i \in 1..Len(table) : table[i][1] = key

RECURSIVE cycles_of(_, _, _)
\* lines 125-128: the aliases of one canonical that are canonicals listing it
cycles_of(table, canonical, equivalents) ==
    IF equivalents = <<>> THEN <<>>
    ELSE LET alias == Head(equivalents)
             rest == cycles_of(table, canonical, Tail(equivalents))
         IN  IF /\ is_canonical(table, alias)
                /\ in_list(canonical, equivalents_of(table, alias))
             THEN <<[kind |-> "cycle", field |-> canonical, first |-> canonical,
                     second |-> alias]>> \o rest
             ELSE rest

RECURSIVE scan_cycles(_, _)
\* lines 124-128: the second loop over field_equivalents.items()
scan_cycles(table, entries) ==
    IF entries = <<>> THEN <<>>
    ELSE cycles_of(table, Head(entries)[1], Head(entries)[2]) \o scan_cycles(table, Tail(entries))

\* the list of issues the method returns
validate_equivalents_consistency(table) ==
    scan_table(table, <<>>) \o scan_cycles(table, table)

---------------------------------------------------------------------------
(* Inputs of validate_equivalents_consistency *)

MaxAliases == 2

ValidatorCanonicals == {<<"d","a","t","e">>, <<"t","i","m","e">>, <<"U65E5","U671F">>}

ValidatorSpellings ==
    {<<"d","a","t","e">>, <<"t","i","m","e">>, <<"U65E5","U671F">>, <<"D","A","T","E">>}

\* the lists of at most MaxAliases aliases
ValidatorAliasLists == TextsUpTo(ValidatorSpellings, MaxAliases)

\* dictionaries of one or two canonicals (the keys of a dict are distinct),
\* and the dictionary of FieldMapper
ValidatorTables ==
    {<< <<c, l>> >> : c \in ValidatorCanonicals, l \in ValidatorAliasLists}
    \cup {tb \in {<< <<c1, l1>>, <<c2, l2>> >> :
                       c1 \in ValidatorCanonicals, c2 \in ValidatorCanonicals,
                       l1 \in ValidatorAliasLists, l2 \in ValidatorAliasLists} :
             tb[1][1] # tb[2][1]}
    \cup {DEFAULT_FIELD_EQUIVALENTS}

InitValidator ==
    /\ loaded_equivalents \in ValidatorTables
    /\ validator_equivalents = loaded_equivalents
    /\ issues = <<>>
    /\ validator_pc = "ready"

IdleValidator ==
    /\ loaded_equivalents = <<>>
    /\ validator_equivalents = <<>>
    /\ issues = <<>>
    /\ validator_pc = "idle"

\* the validation pass
ValidateEquivalentsConsistency ==
    /\ validator_pc = "ready"
    /\ issues' = validate_equivalents_consistency(validator_equivalents)
    /\ validator_pc' = "done"
    /\ UNCHANGED <<loaded_equivalents, validator_equivalents>>
    /\ UNCHANGED <<codeVars, dateVars, numVars, resolverVars, orchVars, builderVars, downloaderVars, parserVars>>

---------------------------------------------------------------------------
(* Claims about validate_equivalents_consistency *)

\* some spelling is an alias under two different canonicals
SharedAlias(table) ==
    \E i, k \in 1..Len(table) :
        i # k /\ AliasesOf(table, i) \cap AliasesOf(table, k) # {}

\* some canonical name is an alias of another canonical
CanonicalAsAlias(table) ==
    \E i, k \in 1..Len(table) : i # k /\ table[k][1] \in AliasesOf(table, i)

\* some canonical name is in its own alias list
SelfAlias(table) == \E i \in 1..Len(table) : table[i][1] \in AliasesOf(table, i)

\* C13 as stated: the pass reports an issue whenever a spelling is an alias
\* under two canonicals or a canonical is an alias of another, no issue when
\* the table has neither defect, and leaves the table unchanged.
C13_ValidationAsStated ==
    validator_pc = "done" =>
        /\ (SharedAlias(loaded_equivalents) \/ CanonicalAsAlias(loaded_equivalents))
               <=> issues # <<>>
        /\ validator_equivalents = loaded_equivalents

\* C13, amended: the pass also reports a canonical listed among its own
\* aliases (as a circular equivalence); it reports no issue exactly when the
\* table has none of the three defects, and leaves the table unchanged.
C13_ValidationWithSelfAlias ==
    validator_pc = "done" =>
        /\ (\/ SharedAlias(loaded_equivalents)
            \/ CanonicalAsAlias(loaded_equivalents)
            \/ SelfAlias(loaded_equivalents)) <=> issues # <<>>
        /\ validator_equivalents = loaded_equivalents

\* a table listing one spelling under date and under time was validated and
\* the spelling reported once, with both canonicals
C13_Witness ==
    /\ validator_pc = "done"
    /\ loaded_equivalents = << <<<<"d","a","t","e">>, << <<"U65E5","U671F">> >> >>,
                               <<<<"t","i","m","e">>, << <<"U65E5","U671F">> >> >> >>
    /\ validator_equivalents = loaded_equivalents
    /\ issues = << [kind |-> "two_canonicals", field |-> <<"U65E5","U671F">>,
                    first |-> <<"d","a","t","e">>, second |-> <<"t","i","m","e">>] >>

---------------------------------------------------------------------------
(* UnifiedFieldSystem.unify_input, unify_output, _normalize_value;         *)
(* InterfaceExecutor.normalize_params                                      *)

\* keyword in field_lower
is_substring(keyword, s) ==
    \E i \in 1..(Len(s) - Len(keyword) + 1) : SubSeq(s, i, i + Len(keyword) - 1) = keyword

\* any(keyword in field_lower for keyword in keywords)
any_keyword(keywords, field_lower) == \E k \in keywords : is_substring(k, field_lower)

CODE_KEYWORDS ==
    {<<"s","y","m","b","o","l">>, <<"c","o","d","e">>, <<"s","t","o","c","k">>,
     <<"b","o","n","d">>, <<"f","u","n","d">>, <<"i","n","d","e","x">>}

DATE_KEYWORDS ==
    {<<"d","a","t","e">>, <<"t","i","m","e">>, <<"y","e","a","r">>, <<"m","o","n","t","h">>}

NUMBER_KEYWORDS ==
    {<<"p","r","i","c","e">>, <<"a","m","o","u","n","t">>, <<"v","a","l","u","e">>,
     <<"r","a","t","e">>, <<"p","e","r","c","e","n","t">>}

\* normalize_value with the temporal rule tried before the identifier rule
normalize_value_date_first(field, value) ==
    LET field_lower == lower(field)
    IN  IF any_keyword(DATE_KEYWORDS, field_lower)
        THEN normalize_date(value, YYYY_MM_DD, TRUE)
        ELSE IF any_keyword(CODE_KEYWORDS, field_lower)
        THEN normalize_stock_code(value, PURE_NUMERIC, <<"a","u","t","o">>)
        ELSE IF any_keyword(NUMBER_KEYWORDS, field_lower) /\ value.tag = "str"
        THEN normalize_float(value)
        ELSE value

\* _normalize_value of UnifiedFieldSystem and of InterfaceExecutor (the same
\* text): the normalizer is chosen by the keywords in the field name; both
\* modules import pandas, so normalize_date finds it
normalize_value(field, value) ==
    LET field_lower == lower(field)
    IN  IF any_keyword(CODE_KEYWORDS, field_lower)
        THEN normalize_stock_code(value, PURE_NUMERIC, <<"a","u","t","o">>)
        ELSE IF any_keyword(DATE_KEYWORDS, field_lower)
        THEN normalize_date(value, YYYY_MM_DD, TRUE)
        ELSE IF any_keyword(NUMBER_KEYWORDS, field_lower) /\ value.tag = "str"
        THEN normalize_float(value)
        ELSE value

RECURSIVE unify_record(_, _, _)
\* the loop over the items of one mapping, of unify_input and of unify_output
unify_record(table, items, unified) ==
    IF items = <<>> THEN unified
    ELSE LET unified_key == find_standard_field(table, Head(items)[1])
             normalized_value == normalize_value(unified_key, Head(items)[2])
         IN  unify_record(table, Tail(items), dict_put(unified, unified_key, normalized_value))

\* a dict as a Python value
DictV(d) == [tag |-> "dict", val |-> d]

\* unify_input: api_name is not consulted
unify_input(table, name, user_input_) == DictV(unify_record(table, user_input_, <<>>))

\* get_interface_info: the input parameter names of the interface, or NoneV
get_interface_info(mapping, name) ==
    IF \E i \in 1..Len(mapping) : mapping[i][1] = name
    THEN mapping[CHOOSE i \in 1..Len(mapping) : mapping[i][1] = name]
    ELSE NoneV

RECURSIVE build_param_map(_, _)
\* lines 53-56: param_map[param_name.lower()] = param_name
build_param_map(input_params, param_map) ==
    IF input_params = <<>> THEN param_map
    ELSE build_param_map(Tail(input_params),
                         dict_put(param_map, lower(Head(input_params)), Head(input_params)))

\* lines 74-78: the first parameter of param_map that is an alias of the
\* canonical or is the canonical; 0 when there is none
first_param_of(param_map, standard, equivalents) ==
    LET hits == {i \in 1..Len(param_map) :
                    \/ in_list(param_map[i][1], equivalents)
                    \/ param_map[i][1] = lower(standard)}
    IN  IF hits = {} THEN 0 ELSE CHOOSE i \in hits : \A k \in hits : i <= k

RECURSIVE param_by_equivalents(_, _, _)
\* lines 72-80: the loop over field_equivalents.items() for a key that is no
\* parameter name; the original name matched, or <<>>
param_by_equivalents(table, param_map, key) ==
    IF table = <<>> THEN <<>>
    ELSE LET standard == Head(table)[1]
             equivalents == Head(table)[2]
             at == first_param_of(param_map, standard, equivalents)
         IN  IF (in_list(key, equivalents) \/ lower(key) = lower(standard)) /\ at # 0
             THEN param_map[at][2]
             ELSE param_by_equivalents(Tail(table), param_map, key)

RECURSIVE normalize_items(_, _, _, _)
\* lines 59-80: the loop over user_params.items()
normalize_items(table, param_map, items, normalized) ==
    IF items = <<>> THEN normalized
    ELSE LET key == Head(items)[1]
             value == Head(items)[2]
             original_name == IF dict_has(param_map, lower(key))
                              THEN dict_get(param_map, lower(key))
                              ELSE param_by_equivalents(table, param_map, key)
         IN  normalize_items(table, param_map, Tail(items),
                             IF original_name = <<>> THEN normalized
                             ELSE dict_put(normalized, original_name,
                                           normalize_value(original_name, value)))

\* InterfaceExecutor.normalize_params
normalize_params(mapping, table, name, user_params) ==
    LET interface_info == get_interface_info(mapping, name)
    IN  IF interface_info = NoneV THEN Raise("ValueError")
        ELSE DictV(normalize_items(table, build_param_map(interface_info[2], <<>>),
                                   user_params, <<>>))

\* the records unify_output reads from its argument: to_dict('records') of a
\* DataFrame, the rows of an object with data and columns; nothing from a
\* list or any other object
unify_records(table, records) ==
    [i \in 1..Len(records) |-> unify_record(table, records[i], <<>>)]

\* unify_output: api_name is not consulted
unify_output(table, name, output) ==
    IF output.shape = "DataFrame"
    THEN [data |-> [kind |-> "list", val |-> unify_records(table, output.records)],
          type |-> "DataFrame"]
    ELSE IF output.shape = "dict"
    THEN [data |-> [kind |-> "mapping", val |-> unify_record(table, output.records[1], <<>>)],
          type |-> "dict"]
    ELSE IF output.shape = "MockDataFrame"
    THEN [data |-> [kind |-> "list", val |-> unify_records(table, output.records)],
          type |-> "MockDataFrame"]
    ELSE [data |-> [kind |-> "list", val |-> <<>>], type |-> "unknown"]

\* field names of the requests and responses
F_date == <<"d","a","t","e">>
F_symbol == <<"s","y","m","b","o","l">>
F_start_date == <<"s","t","a","r","t","_","d","a","t","e">>
F_end_date == <<"e","n","d","_","d","a","t","e">>
F_foo == <<"f","o","o">>
F_riqi == <<"U65E5","U671F">>
F_daima == <<"U4EE3","U7801">>
F_gupiaodaima == <<"U80A1","U7968","U4EE3","U7801">>
F_shoupanjia == <<"U6536","U76D8","U4EF7">>
F_zhangdiefu == <<"U6DA8","U8DCC","U5E45">>
F_Trade_Date == <<"T","r","a","d","e","_","D","a","t","e">>
F_close == <<"c","l","o","s","e">>

\* the interfaces of result/complete_field_mapping.json: name and the
\* names of input_params
MAPPING_DATA ==
    << <<"stock_zh_a_hist", <<F_symbol, F_start_date, F_end_date>>>>,
       <<"stock_daily", <<F_riqi, F_daima>>>> >>

ApiNames == {"stock_zh_a_hist", "stock_daily", "no_such_api"}

\* the largest number of parameters of a request
MaxFields == 2

\* the largest number of records of a response
MaxRecords == 2

RequestKeys == {F_date, F_riqi, F_symbol, F_start_date, F_end_date, F_foo}

\* the values a caller gives to a parameter
RequestValues(key) ==
    IF key = F_symbol
    THEN {Str(<<"s","z","0","0","0","0","0","1">>), Str(<<"0","0","0","0","0","1">>)}
    ELSE IF key = F_foo
    THEN {IntV(1)}
    ELSE {Str(<<"2","0","2","4","0","1","0","1">>),
          Str(<<"2","0","2","4","-","0","1","-","1","0">>)}

RECURSIVE RequestsOf(_)
\* the requests with the given keys, in each order
RequestsOf(keys) ==
    IF keys = {} THEN {<<>>}
    ELSE UNION {{<<<<k, v>>>> \o r : v \in RequestValues(k), r \in RequestsOf(keys \ {k})} :
                k \in keys}

\* test_input_unification's request
TEST_REQUEST ==
    << <<F_symbol, Str(<<"s","z","0","0","0","0","0","1">>)>>,
       <<F_start_date, Str(<<"2","0","2","4","U5E74","1","U6708","1","U65E5">>)>>,
       <<F_end_date, Str(<<"2","0","2","4","-","0","1","-","1","0">>)>> >>

F_index_date == <<"i","n","d","e","x","_","d","a","t","e">>
F_date_value == <<"d","a","t","e","_","v","a","l","u","e">>
F_price == <<"p","r","i","c","e">>
F_huanshoulv == <<"U6362","U624B","U7387">>

\* requests of one parameter whose name holds keywords of two kinds, or a
\* magnitude keyword with a text or a number
DispatchRequests ==
    {<<<<F_index_date, v>>>> :
        v \in {Str(<<"2","0","2","4","-","0","1","-","1","0">>), IntV(5)}}
    \cup {<<<<F_date_value, v>>>> :
        v \in {Str(<<"2","0","2","4","-","0","1","-","1","0">>),
               Str(<<"2","0","2","4","0","1","0","1">>)}}
    \cup {<<<<k, v>>>> :
        k \in {F_price, F_huanshoulv},
        v \in {Str(<<"1",",","2","3","4",".","5","6">>), Str(<<"5","0","%">>), IntV(5)}}

Requests ==
    UNION {RequestsOf(keys) : keys \in {ks \in SUBSET RequestKeys : Cardinality(ks) <= MaxFields}}
    \cup {TEST_REQUEST}
    \cup DispatchRequests

ResponseColumns == {F_riqi, F_gupiaodaima, F_shoupanjia, F_zhangdiefu, F_Trade_Date, F_close}

\* the value of a column in the row-th record
cell(column, row) ==
    IF column = F_shoupanjia \/ column = F_close THEN Fin(10 * row, 0)
    ELSE IF column = F_zhangdiefu THEN Str(nat_str(row) \o <<".","0","%">>)
    ELSE IF column = F_gupiaodaima THEN Str(<<"0","0","0","0","0">> \o nat_str(row))
    ELSE Str(<<"2","0","2","4","-","0","1","-","0">> \o nat_str(row))

\* test_output_unification's columns
TEST_COLUMNS == <<F_riqi, F_gupiaodaima, F_shoupanjia, F_zhangdiefu>>

ColumnLists ==
    {<<c>> : c \in ResponseColumns}
    \cup {<<c, d>> : c \in {F_riqi, F_zhangdiefu}, d \in {F_Trade_Date, F_close, F_gupiaodaima}}
    \cup {TEST_COLUMNS}

\* the records of a table with the given columns and number of rows
records_of(columns, rows) ==
    [r \in 1..rows |-> [c \in 1..Len(columns) |-> <<columns[c], cell(columns[c], r)>>]]

Shapes == {"DataFrame", "dict", "MockDataFrame", "list", "other"}

\* what an interface returns: a DataFrame, a dict, an object with data and
\* columns, a list of dicts, or something else; field names are texts
Responses ==
    {[shape |-> "other", records |-> <<>>]}
    \cup {[shape |-> "dict", records |-> records_of(cs, 1)] : cs \in ColumnLists}
    \cup {[shape |-> s, records |-> records_of(cs, n)] :
            s \in {"DataFrame", "MockDataFrame", "list"}, cs \in ColumnLists, n \in 0..MaxRecords}

NoResponse == [shape |-> "other", records |-> <<>>]

\* the orchestrators after construction: schema and alias table loaded
InitOrchestrator ==
    /\ mapping_data = MAPPING_DATA
    /\ api_name = ""
    /\ user_input = <<>>
    /\ unified_input = NoneV
    /\ api_output = NoResponse
    /\ unified_output = NoneV
    /\ orch_pc = "loaded"

IdleOrchestrator ==
    /\ mapping_data = <<>>
    /\ api_name = ""
    /\ user_input = <<>>
    /\ unified_input = NoneV
    /\ api_output = NoResponse
    /\ unified_output = NoneV
    /\ orch_pc = "idle"

\* a caller passes a request to UnifiedFieldSystem.unify_input
UnifyInput ==
    /\ orch_pc = "loaded"
    /\ \E name \in ApiNames, request \in Requests :
          /\ api_name' = name
          /\ user_input' = request
          /\ unified_input' = unify_input(field_equivalents, name, request)
    /\ orch_pc' = "unify_input"
    /\ UNCHANGED <<mapping_data, api_output, unified_output>>
    /\ UNCHANGED <<codeVars, dateVars, numVars, resolverVars, validatorVars, builderVars, downloaderVars, parserVars>>

\* a caller passes a request to InterfaceExecutor.normalize_params
NormalizeParams ==
    /\ orch_pc = "loaded"
    /\ \E name \in ApiNames, request \in Requests :
          /\ api_name' = name
          /\ user_input' = request
          /\ unified_input' = normalize_params(mapping_data, field_equivalents, name, request)
    /\ orch_pc' = "normalize_params"
    /\ UNCHANGED <<mapping_data, api_output, unified_output>>
    /\ UNCHANGED <<codeVars, dateVars, numVars, resolverVars, validatorVars, builderVars, downloaderVars, parserVars>>

\* a caller passes an interface's result to UnifiedFieldSystem.unify_output
UnifyOutput ==
    /\ orch_pc = "loaded"
    /\ \E name \in ApiNames, output \in Responses :
          /\ api_name' = name
          /\ api_output' = output
          /\ unified_output' = unify_output(field_equivalents, name, output)
    /\ orch_pc' = "unify_output"
    /\ UNCHANGED <<mapping_data, user_input, unified_input>>
    /\ UNCHANGED <<codeVars, dateVars, numVars, resolverVars, validatorVars, builderVars, downloaderVars, parserVars>>



---------------------------------------------------------------------------
(* Claims about the request path *)

\* the keys of a dict
keys_of(d) == {d[i][1] : i \in 1..Len(d)}

\* the interface is in the persisted schema
IsKnownInterface(name) == get_interface_info(mapping_data, name) # NoneV

\* the input parameter names the schema declares for the interface
DeclaredInputs(name) ==
    LET info == get_interface_info(mapping_data, name)
    IN  {info[2][i] : i \in 1..Len(info[2])}

\* a request-path call has returned or raised
RequestPathCalled == orch_pc \in {"unify_input", "normalize_params"}

\* C14: for the interface whose declared input field is the alias 日期 of
\* date, unify_input on the request {date: "20240101"} returns the
\* parameter set {日期: "2024-01-01"}: keyed by the interface's spelling,
\* and the value rendered as a date.
C14_RequestRoundTrip ==
    (/\ orch_pc = "unify_input"
     /\ api_name = "stock_daily"
     /\ user_input = <<<<F_date, Str(<<"2","0","2","4","0","1","0","1">>)>>>>)
    => unified_input
         = DictV(<<<<F_riqi, Str(<<"2","0","2","4","-","0","1","-","0","1">>)>>>>)

\* C15: on the request path, for an interface of the schema, every key of
\* the returned parameter set is an input parameter name the interface
\* declares; a caller key that corresponds to none is dropped.
C15_UnmatchedKeysDropped ==
    (RequestPathCalled /\ IsKnownInterface(api_name))
    => /\ unified_input.tag = "dict"
       /\ keys_of(unified_input.val) \subseteq DeclaredInputs(api_name)

\* C16: unify_input never merges two caller keys: a request with the keys
\* symbol, start_date and end_date returns a mapping with each of them, the
\* returned mapping has as many keys as the request, and the empty request
\* returns the empty mapping.
C16_DistinctParametersKept ==
    orch_pc = "unify_input"
    => /\ unified_input.tag = "dict"
       /\ keys_of(user_input) = {F_symbol, F_start_date, F_end_date}
          => {F_symbol, F_start_date, F_end_date} \subseteq keys_of(unified_input.val)
       /\ Len(unified_input.val) = Len(user_input)
       /\ user_input = <<>> => unified_input.val = <<>>

\* C17: a request-path call that names an interface absent from the schema
\* raises and returns no parameter set, and leaves the schema and the alias
\* table as loaded.
C17_UnknownInterfaceFails ==
    (RequestPathCalled /\ ~IsKnownInterface(api_name))
    => /\ unified_input.tag = "raise"
       /\ mapping_data = MAPPING_DATA
       /\ field_equivalents = DEFAULT_FIELD_EQUIVALENTS

---------------------------------------------------------------------------
(* Claims about the response path *)

\* unify_output has returned for a result whose records it reads
RecordsUnified ==
    /\ orch_pc = "unify_output"
    /\ api_output.shape \in {"DataFrame", "dict", "MockDataFrame"}

\* the records unify_output returned, as a sequence
OutputRecords ==
    IF unified_output.data.kind = "list" THEN unified_output.data.val
    ELSE <<unified_output.data.val>>

\* C18: on the response path the keys of every returned record are exactly
\* the names get_canonical_name gives for the fields of the raw record,
\* matches by case-insensitive alias comparison included.
C18_OutputKeysCanonical ==
    RecordsUnified
    => /\ Len(OutputRecords) = Len(api_output.records)
       /\ \A i \in 1..Len(api_output.records) :
             keys_of(OutputRecords[i])
               = {get_canonical_name(field_equivalents, Str(f)).val :
                     f \in keys_of(api_output.records[i])}

\* C19: with the default alias table, when the raw records have a field
\* named 涨跌幅, every returned record has the key 涨跌幅.
C19_ChangePercentKeyKept ==
    (/\ RecordsUnified
     /\ field_equivalents = DEFAULT_FIELD_EQUIVALENTS
     /\ \A i \in 1..Len(api_output.records) : F_zhangdiefu \in keys_of(api_output.records[i]))
    => \A i \in 1..Len(OutputRecords) : F_zhangdiefu \in keys_of(OutputRecords[i])

\* C20: unify_output keeps the shape of its argument: a list of n records,
\* a DataFrame or an object with data and columns of n rows gives a list of
\* n records, a single mapping gives a single mapping.
C20_ShapePreserved ==
    orch_pc = "unify_output"
    => /\ api_output.shape \in {"DataFrame", "MockDataFrame", "list"}
          => /\ unified_output.data.kind = "list"
             /\ Len(unified_output.data.val) = Len(api_output.records)
       /\ api_output.shape = "dict" => unified_output.data.kind = "mapping"

---------------------------------------------------------------------------
(* Idempotence of the market-dependent forms *)

\* C29: with default_market "auto", normalizing to the suffix form or to the
\* prefix form twice gives what normalizing once gives, for every input,
\* zero-padded short digit runs included.
C29_MarketFormsIdempotent ==
    (/\ code_pc = "again"
     /\ target_format \in {WITH_SUFFIX, WITH_PREFIX}
     /\ default_market = AUTO)
    => code_again = code_result

\* the input carries a market marker, or its first digit run is not shorter
\* than six digits
MarkedOrFullLength(c) ==
    c.tag # "none"
    => LET code_str == strip(py_str(c))
       IN  \/ match_suffix(code_str) # 0
           \/ match_prefix(code_str) # 0
           \/ re_search_digits(code_str) = <<>>
           \/ Len(re_search_digits(code_str)) >= 6

\* C29 (amended): with default_market "auto", normalizing to the suffix form
\* or to the prefix form twice gives what normalizing once gives, for every
\* input that carries a market marker or whose first digit run has six or
\* more digits or none.
C29_MarkedFormsIdempotent ==
    (/\ code_pc = "again"
     /\ target_format \in {WITH_SUFFIX, WITH_PREFIX}
     /\ default_market = AUTO
     /\ MarkedOrFullLength(code))
    => code_again = code_result

\* a prefixed code with a short digit run was padded, rendered in the
\* suffix form and normalized again
C29_Witness ==
    /\ code_pc = "again"
    /\ target_format = WITH_SUFFIX
    /\ default_market = AUTO
    /\ code = Str(<<"s","h","6","a","5">>)
    /\ code_result = Str(<<"0","0","0","0","6","5",".","S","H">>)
    /\ code_again = code_result

---------------------------------------------------------------------------
(* Claims about the parsers of normalize_date *)

\* the first place where the text carries <4 digits>年<month>月<day>日, 0 when
\* it carries none
cn_date_at(s) ==
    LET at == {i \in 1..Len(s) : cn_date_match(SubSeq(s, i, Len(s))) # <<>>}
    IN  IF at = {} THEN 0 ELSE CHOOSE i \in at : \A k \in at : i <= k

\* the fields of a year, a month and a day
DateOf(y, m, d) == [NoFields EXCEPT !.year = y, !.month = m, !.day = d]

DateCalled == date_pc \in {"done", "again"}

\* the trimmed text normalize_date was given
DateText == strip(py_str(date_str))

\* C26: when the input carries the notation <4-digit year>年<month>月<day>日,
\* the result is the rendering of that year, month and day (clamped), with
\* or without the general parser.
C26_LocalNotationFirst ==
    (/\ DateCalled
     /\ date_str.tag = "str"
     /\ cn_date_at(DateText) # 0)
    => LET cn == cn_date_match(SubSeq(DateText, cn_date_at(DateText), Len(DateText)))
           f == DateOf(digits_int(cn[1]), digits_int(cn[2]), digits_int(cn[3]))
       IN  date_result = Str(render_date(clamp_date(f), date_format, DateText))

\* neither the 年月日 pattern nor the general parser gives a date
OnlyDigitsLeft ==
    /\ DateCalled
    /\ date_str.tag = "str"
    /\ DateText # <<>>
    /\ lower(DateText) \notin {<<"n","a","n">>, <<"n","a","t">>, <<"n","o","n","e">>}
    /\ cn_date_match(DateText) = <<>>
    /\ pd_to_datetime(DateText, pandas_available).year = -1

\* two digits of a month or a day, "01" when outside 1..top
TwoDigitsUpTo(text, top) ==
    IF 1 <= digits_int(text) /\ digits_int(text) <= top THEN text ELSE <<"0","1">>

\* the rendering the specification gives for the joined digit runs: by their
\* number, clamped, in the target form; the text itself for another number
RefDigitDate(text, fmt) ==
    LET combined == re_findall_digits(text)
        n == Len(combined)
        year == SubSeq(combined, 1, 4)
        month == IF n >= 6 THEN TwoDigitsUpTo(SubSeq(combined, 5, 6), 12) ELSE <<"0","1">>
        day == IF n >= 8 THEN TwoDigitsUpTo(SubSeq(combined, 7, 8), 31) ELSE <<"0","1">>
        time == IF n >= 14
                THEN SubSeq(combined, 9, 10) \o <<":">> \o SubSeq(combined, 11, 12)
                     \o <<":">> \o SubSeq(combined, 13, 14)
                ELSE <<"0","0",":","0","0",":","0","0">>
    IN  IF ~(n >= 8 \/ n = 6 \/ n = 4) THEN text
        ELSE IF fmt = YYYYMMDD THEN year \o month \o day
        ELSE IF fmt = YYYY_MM_DD THEN year \o <<"-">> \o month \o <<"-">> \o day
        ELSE IF fmt = YYYYMM THEN year \o month
        ELSE year \o <<"-">> \o month \o <<"-">> \o day \o <<" ">> \o time

\* C27: when neither the pattern nor the general parser gives a date, the
\* result is the joined digit runs read by their number (8 or more: YYYYMMDD,
\* with HHMMSS from 14; 6: YYYYMM, day 1; 4: YYYY, month 1, day 1), month and
\* day outside their range reset to 1, rendered in the target form; any other
\* number of digits returns the trimmed input.
C27_DigitFallback ==
    OnlyDigitsLeft => date_result = Str(RefDigitDate(DateText, date_format))

\* the joined digits read 0000 as the year
YearZero(text) ==
    LET combined == re_findall_digits(text)
    IN  Len(combined) >= 4 /\ SubSeq(combined, 1, 4) = <<"0","0","0","0">>

\* C27 (amended): as C27, and a text whose joined digits read the year 0000
\* is returned as the trimmed input.
C27_DigitFallbackYearZero ==
    OnlyDigitsLeft
    => date_result = IF YearZero(DateText) THEN Str(DateText)
                     ELSE Str(RefDigitDate(DateText, date_format))

\* a date with month 13 and day 32, which the general parser refuses, was
\* read from its digits and clamped
C27_Witness ==
    /\ date_pc = "done"
    /\ pandas_available
    /\ date_str = Str(<<"2","0","2","4","-","1","3","-","3","2">>)
    /\ date_format = YYYY_MM_DD
    /\ date_result = Str(<<"2","0","2","4","-","0","1","-","0","1">>)

---------------------------------------------------------------------------
(* Claims about the choice of the value normalizer *)

\* the canonical name UnifiedFieldSystem resolves a field to
Canonical(field) == find_standard_field(field_equivalents, field)

\* the value of the last item of a mapping that resolves to the canonical
LastValue(items, canonical) ==
    LET at == {i \in 1..Len(items) : Canonical(items[i][1]) = canonical}
    IN  items[CHOOSE i \in at : \A k \in at : k <= i][2]

\* the normalizer the ordered rules give for a name
RefNormalizer(name) ==
    LET holds(keywords) == \E k \in keywords : is_substring(k, lower(name))
    IN  CASE holds(CODE_KEYWORDS) -> "code"
          [] ~holds(CODE_KEYWORDS) /\ holds(DATE_KEYWORDS) -> "date"
          [] ~holds(CODE_KEYWORDS) /\ ~holds(DATE_KEYWORDS) /\ holds(NUMBER_KEYWORDS) -> "number"
          [] OTHER -> "none"

\* the value the chosen normalizer gives
RefNormalized(name, value) ==
    CASE RefNormalizer(name) = "code" -> normalize_stock_code(value, PURE_NUMERIC, AUTO)
      [] RefNormalizer(name) = "date" -> normalize_date(value, YYYY_MM_DD, TRUE)
      [] RefNormalizer(name) = "number" /\ value.tag = "str" -> normalize_float(value)
      [] OTHER -> value

\* a returned mapping holds, for every canonical name of the raw mapping,
\* the value the rules give
DispatchedByRules(items, unified) ==
    /\ keys_of(unified) = {Canonical(items[i][1]) : i \in 1..Len(items)}
    /\ \A k \in keys_of(unified) :
          dict_get(unified, k) = RefNormalized(k, LastValue(items, k))

---------------------------------------------------------------------------
(* FieldMapper.build_mapping, _add_field_mapping, save_mapping *)

\* the characters of interface names in code-point order
CodePointOrder == DigitSeq \o UpperAlpha \o <<"_">> \o LowerAlpha

ord(c) == CHOOSE i \in 1..Len(CodePointOrder) : CodePointOrder[i] = c

RECURSIVE str_less(_, _)
\* a < b of two str
str_less(a, b) ==
    IF b = <<>> THEN FALSE
    ELSE IF a = <<>> THEN TRUE
    ELSE IF Head(a) = Head(b) THEN str_less(Tail(a), Tail(b))
    ELSE ord(Head(a)) < ord(Head(b))

RECURSIVE insort(_, _)
insort(sorted_list, x) ==
    IF sorted_list = <<>> THEN <<x>>
    ELSE IF str_less(x, Head(sorted_list)) THEN <<x>> \o sorted_list
    ELSE <<Head(sorted_list)>> \o insort(Tail(sorted_list), x)

RECURSIVE sorted(_)
\* sorted(list) of a list of str
sorted(list) ==
    IF list = <<>> THEN <<>>
    ELSE insort(sorted(SubSeq(list, 1, Len(list) - 1)), list[Len(list)])

\* type_mapping, lines 114-127
TYPE_MAPPING ==
    << <<<<"o","b","j","e","c","t">>, <<"s","t","r","i","n","g">>>>,
       <<<<"s","t","r">>, <<"s","t","r","i","n","g">>>>,
       <<<<"i","n","t","6","4">>, <<"i","n","t","e","g","e","r">>>>,
       <<<<"i","n","t">>, <<"i","n","t","e","g","e","r">>>>,
       <<<<"f","l","o","a","t","6","4">>, <<"f","l","o","a","t">>>>,
       <<<<"f","l","o","a","t">>, <<"f","l","o","a","t">>>>,
       <<<<"b","o","o","l">>, <<"b","o","o","l","e","a","n">>>>,
       <<<<"d","a","t","e","t","i","m","e">>, <<"d","a","t","e","t","i","m","e">>>>,
       <<<<"l","i","s","t">>, <<"a","r","r","a","y">>>>,
       <<<<"d","i","c","t">>, <<"o","b","j","e","c","t">>>>,
       <<<<"i","n","t","3","2">>, <<"i","n","t","e","g","e","r">>>>,
       <<<<"d","a","t","e","t","i","m","e","6","4">>, <<"d","a","t","e","t","i","m","e">>>> >>

\* self.type_mapping.get(field_type.lower(), field_type.lower())
normalized_type(field_type) ==
    IF dict_has(TYPE_MAPPING, lower(field_type))
    THEN dict_get(TYPE_MAPPING, lower(field_type))
    ELSE lower(field_type)

\* Counter: types[t] += 1
counter_add(types, t) ==
    IF dict_has(types, t) THEN dict_put(types, t, dict_get(types, t) + 1)
    ELSE dict_put(types, t, 1)

\* the last type of a Counter with the highest count
most_common_last(types) ==
    LET top == {i \in 1..Len(types) : \A k \in 1..Len(types) : types[k][2] <= types[i][2]}
    IN  types[CHOOSE i \in top : \A k \in top : k <= i][1]

\* Counter.most_common(1)[0][0]: the first inserted type of the highest count
most_common(types) ==
    LET top == {i \in 1..Len(types) : \A k \in 1..Len(types) : types[k][2] <= types[i][2]}
    IN  types[CHOOSE i \in top : \A k \in top : i <= k][1]

\* lines 323-331: the entry of a canonical field not seen before
NewField ==
    [aliases |-> {}, input_interfaces |-> <<>>, output_interfaces |-> <<>>, types |-> <<>>]

\* a list with the element appended when it is not in it
append_new(list, x) == IF in_list(x, list) THEN list ELSE Append(list, x)

\* _add_field_mapping on self.fields; param is <<name, type>>, type NoneV
\* when the table has no type column
add_field(fields_, canonical, original, func_name, param_type, param) ==
    LET info == IF dict_has(fields_, canonical) THEN dict_get(fields_, canonical) ELSE NewField
        listed == IF param_type = "input"
                  THEN [info EXCEPT !.input_interfaces = append_new(@, func_name)]
                  ELSE [info EXCEPT !.output_interfaces = append_new(@, func_name)]
        typed == IF param[2] = NoneV THEN listed
                 ELSE [listed EXCEPT !.types = counter_add(@, normalized_type(param[2].val))]
    IN  dict_put(fields_, canonical, [typed EXCEPT !.aliases = @ \cup {original}])

\* save_mapping, lines 370-380: the entry written for a canonical field
saved_field(info) ==
    [input_interfaces |-> sorted(info.input_interfaces),
     output_interfaces |-> sorted(info.output_interfaces),
     common_type |-> IF info.types # <<>> THEN most_common(info.types)
                     ELSE <<"s","t","r","i","n","g">>,
     all_types |-> info.types]

\* the interfaces and the rows of their parameter tables
STOCK_A == <<"s","t","o","c","k","_","a">>

STOCK_B == <<"s","t","o","c","k","_","b">>

INT64 == Str(<<"I","n","t","6","4">>)

STR == Str(<<"s","t","r">>)

\* the rows of the parameter tables of two interfaces, each with the
\* interface, the side of the table and the row (name, type): stock_b
\* takes 代码 (a table without a type column) and date and returns 日期 and
\* date, stock_a takes 代码 and 日期 and returns 日期 and date
BuilderRows ==
    { <<STOCK_B, "input", <<F_daima, NoneV>>>>,
      <<STOCK_B, "input", <<F_date, STR>>>>,
      <<STOCK_B, "output", <<F_riqi, INT64>>>>,
      <<STOCK_B, "output", <<F_date, STR>>>>,
      <<STOCK_A, "input", <<F_daima, NoneV>>>>,
      <<STOCK_A, "input", <<F_riqi, INT64>>>>,
      <<STOCK_A, "output", <<F_riqi, INT64>>>>,
      <<STOCK_A, "output", <<F_date, STR>>>> }

\* the largest number of field occurrences folded
MaxOccurrences == 3

InitBuilder ==
    /\ fields = <<>>
    /\ field_to_interfaces = <<>>
    /\ saved_fields = NoneV
    /\ rows_folded = <<>>
    /\ builder_pc = "building"

IdleBuilder ==
    /\ fields = <<>>
    /\ field_to_interfaces = <<>>
    /\ saved_fields = NoneV
    /\ rows_folded = <<>>
    /\ builder_pc = "idle"

\* build_mapping folds one row of an interface's input or output table
AddFieldMapping ==
    /\ builder_pc = "building"
    /\ Len(rows_folded) < MaxOccurrences
    /\ \E row \in BuilderRows :
          LET func_name == row[1]
              param_type == row[2]
              param == row[3]
              canonical == get_canonical_name(field_equivalents, Str(param[1])).val
          IN  /\ fields' = add_field(fields, canonical, param[1], func_name, param_type, param)
              /\ field_to_interfaces' =
                    dict_put(field_to_interfaces, canonical,
                             (IF dict_has(field_to_interfaces, canonical)
                              THEN dict_get(field_to_interfaces, canonical) ELSE {})
                             \cup {func_name})
              /\ rows_folded' = Append(rows_folded, <<func_name, param_type, param>>)
    /\ UNCHANGED <<saved_fields, builder_pc>>
    /\ UNCHANGED <<codeVars, dateVars, numVars, resolverVars, validatorVars, orchVars, downloaderVars, parserVars>>

\* save_mapping writes the fields of complete_field_mapping.json
SaveMapping ==
    /\ builder_pc = "building"
    /\ saved_fields' = [i \in 1..Len(fields) |-> <<fields[i][1], saved_field(fields[i][2])>>]
    /\ builder_pc' = "saved"
    /\ UNCHANGED <<fields, field_to_interfaces, rows_folded>>
    /\ UNCHANGED <<codeVars, dateVars, numVars, resolverVars, validatorVars, orchVars, downloaderVars, parserVars>>

---------------------------------------------------------------------------
(* Claims about the schema builder *)

\* the canonical name of a folded row
RowCanonical(row) == get_canonical_name(field_equivalents, Str(row[3][1])).val

RECURSIVE FirstSeen(_, _, _)
\* the interfaces of the rows of a canonical name and a side, each once, in
\* the order of their first row
FirstSeen(rows, canonical, side) ==
    IF rows = <<>> THEN <<>>
    ELSE LET before == FirstSeen(SubSeq(rows, 1, Len(rows) - 1), canonical, side)
             row == rows[Len(rows)]
         IN  IF /\ RowCanonical(row) = canonical
                /\ row[2] = side
                /\ \A i \in 1..Len(before) : before[i] # row[1]
             THEN Append(before, row[1])
             ELSE before

\* C24: in memory and in the saved mapping, the input and the output
\* interface list of every canonical field hold each interface once, in the
\* order in which the interfaces were first seen.
C24_InterfaceListsFirstSeen ==
    /\ builder_pc # "idle"
       => \A i \in 1..Len(fields) :
             /\ fields[i][2].input_interfaces = FirstSeen(rows_folded, fields[i][1], "input")
             /\ fields[i][2].output_interfaces = FirstSeen(rows_folded, fields[i][1], "output")
    /\ builder_pc = "saved"
       => \A i \in 1..Len(saved_fields) :
             /\ saved_fields[i][2].input_interfaces
                  = FirstSeen(rows_folded, saved_fields[i][1], "input")
             /\ saved_fields[i][2].output_interfaces
                  = FirstSeen(rows_folded, saved_fields[i][1], "output")

\* the rows of a canonical name that declare a type
TypedRows(canonical) ==
    {i \in 1..Len(rows_folded) :
        RowCanonical(rows_folded[i]) = canonical /\ rows_folded[i][3][2] # NoneV}

\* the type name of a row: lower-cased, then through the type-name table
RowType(i) == normalized_type(rows_folded[i][3][2].val)

\* the mode of the types of a canonical name; of several with the highest
\* count the one declared first; string when no row declares a type
RefCommonType(canonical) ==
    LET rows == TypedRows(canonical)
        count(i) == Cardinality({k \in rows : RowType(k) = RowType(i)})
        first(i) == \A k \in rows : RowType(k) = RowType(i) => i <= k
        mode == CHOOSE i \in rows :
                    /\ first(i)
                    /\ \A k \in rows : count(k) <= count(i)
                    /\ \A k \in rows : (first(k) /\ count(k) = count(i)) => i <= k
    IN  IF rows = {} THEN <<"s","t","r","i","n","g">> ELSE RowType(mode)

---------------------------------------------------------------------------
(* MacroDataDownloader.download_all_data *)

\* the largest number of configured interfaces
MaxInterfaces == 2

\* the largest max_retries
MaxRetries == 2

\* an entry of the task file: complete, or lacking the key func_name
\* (download_interface_data raises KeyError before its own try), or lacking
\* the key name (the log line at the head of the loop raises KeyError)
ConfigKinds == {"complete", "no_func_name", "no_name"}

ConfigLists ==
    UNION { [1..n -> ConfigKinds] : n \in 0..MaxInterfaces }

\* the status of the result download_interface_data returns
Statuses == {"success", "error"}

InitDownloader ==
    /\ configs \in ConfigLists
    /\ max_retries \in 1..MaxRetries
    /\ config_index = 1
    /\ attempt = 0
    /\ results = <<>>
    /\ downloader_pc = "loop"

IdleDownloader ==
    /\ configs = <<>>
    /\ max_retries = 0
    /\ config_index = 0
    /\ attempt = 0
    /\ results = <<>>
    /\ downloader_pc = "idle"

\* for i, config in enumerate(configs, 1): the log line reads config['name']
BeginInterface ==
    /\ downloader_pc = "loop"
    /\ config_index <= Len(configs)
    /\ attempt' = 0
    /\ downloader_pc' = IF configs[config_index] = "no_name" THEN "raised" ELSE "attempting"
    /\ UNCHANGED <<configs, max_retries, config_index, results>>
    /\ UNCHANGED <<codeVars, dateVars, numVars, resolverVars, validatorVars, orchVars,
                   builderVars, parserVars>>

\* one pass of for attempt in range(max_retries)
DownloadInterfaceData ==
    /\ downloader_pc = "attempting"
    /\ attempt < max_retries
    /\ IF configs[config_index] = "no_func_name"
       THEN \* except Exception: nothing is appended
            /\ attempt' = attempt + 1
            /\ UNCHANGED <<config_index, results, downloader_pc>>
       ELSE \E status \in Statuses :
               /\ results' = Append(results, [name |-> config_index, status |-> status])
               /\ IF status = "success"
                  THEN \* break, then the next interface
                       /\ config_index' = config_index + 1
                       /\ downloader_pc' = "loop"
                       /\ UNCHANGED attempt
                  ELSE /\ attempt' = attempt + 1
                       /\ UNCHANGED <<config_index, downloader_pc>>
    /\ UNCHANGED <<configs, max_retries>>
    /\ UNCHANGED <<codeVars, dateVars, numVars, resolverVars, validatorVars, orchVars,
                   builderVars, parserVars>>

\* range(max_retries) is exhausted: the next interface
EndAttempts ==
    /\ downloader_pc = "attempting"
    /\ attempt >= max_retries
    /\ config_index' = config_index + 1
    /\ downloader_pc' = "loop"
    /\ UNCHANGED <<configs, max_retries, attempt, results>>
    /\ UNCHANGED <<codeVars, dateVars, numVars, resolverVars, validatorVars, orchVars,
                   builderVars, parserVars>>

\* return results
ReturnResults ==
    /\ downloader_pc = "loop"
    /\ config_index > Len(configs)
    /\ downloader_pc' = "returned"
    /\ UNCHANGED <<configs, max_retries, config_index, attempt, results>>
    /\ UNCHANGED <<codeVars, dateVars, numVars, resolverVars, validatorVars, orchVars,
                   builderVars, parserVars>>

---------------------------------------------------------------------------
(* Claims about download_all_data *)

\* the results appended for the interface at position i of the task file
ResultsOf(i) == {k \in 1..Len(results) : results[k].name = i}

\* C30: download_all_data returns exactly one result per configured
\* interface, however many attempts each interface needed, so the returned
\* list has as many entries as there are configured interfaces
C30_OneResultPerInterface ==
    downloader_pc = "returned" =>
        /\ Len(results) = Len(configs)
        /\ \A i \in 1..Len(configs) : Cardinality(ResultsOf(i)) = 1

---------------------------------------------------------------------------
(* FieldMapper._parse_file_with_detail, _parse_table_with_prefix,         *)
(* _parse_table                                                            *)

NL == "\n"

\* \s of the regular expressions, and what str.strip() removes
TextWhitespace == {" ", NL}

\* the label tokens of api_pattern
JIEKOU == <<"U63A5", "U53E3", ":">>
MUBIAODIZHI == <<"U76EE", "U6807", "U5730", "U5740", ":">>
MIAOSHU == <<"U63CF", "U8FF0", ":">>

\* the table names _parse_file_with_detail asks for
SHURUCANSHU == <<"U8F93", "U5165", "U53C2", "U6570">>
SHUCHUCANSHU == <<"U8F93", "U51FA", "U53C2", "U6570">>

SetMax(S) == CHOOSE n \in S : \A m \in S : m <= n

SetMin(S) == CHOOSE n \in S : \A m \in S : n <= m

RECURSIVE text_lstrip(_)
text_lstrip(s) ==
    IF s # <<>> /\ Head(s) \in TextWhitespace THEN text_lstrip(Tail(s)) ELSE s

RECURSIVE text_rstrip(_)
text_rstrip(s) ==
    IF s # <<>> /\ s[Len(s)] \in TextWhitespace
    THEN text_rstrip(SubSeq(s, 1, Len(s) - 1))
    ELSE s

text_strip(s) == text_rstrip(text_lstrip(s))

\* the text has pat at position p
text_at(text, p, pat) ==
    /\ p >= 1
    /\ p + Len(pat) - 1 <= Len(text)
    /\ SubSeq(text, p, p + Len(pat) - 1) = pat

\* the length of the longest run of \s that starts at position p
ws_run(text, p) ==
    SetMax({n \in 0..(Len(text) - p + 1) :
               \A k \in 0..(n - 1) : text[p + k] \in TextWhitespace})

NoMatch == [ok |-> FALSE]

\* the one element of a set of one element
Pick(S) == CHOOSE x \in S : TRUE

\* the positions of pat in the text
positions(text, pat) == {e \in 1..Len(text) : text_at(text, e, pat)}

\* \s*(.+?) with re.DOTALL from position p, where the run of \s at p is ws
\* long and ends holds the positions from which the rest of the pattern
\* matches: the greedy \s* keeps as much as leaves the group one character
\* before some end, the lazy group stops at the first end after that
lazy_group(p, ws, ends) ==
    IF \A e \in ends : e <= p
    THEN NoMatch
    ELSE Pick({ [ok |-> TRUE, from |-> p + w, to |-> SetMin({e \in ends : e > p + w})] :
                w \in {IF ws < SetMax(ends) - p THEN ws ELSE SetMax(ends) - p - 1} })

\* \s*(.+?)\n tried at the position after the label 描述:
description_at(text, p) ==
    Pick({ IF g.ok
           THEN [ok |-> TRUE, description |-> SubSeq(text, g.from, g.to - 1),
                 end |-> g.to + 1]
           ELSE NoMatch :
           g \in {lazy_group(p, ws_run(text, p), positions(text, <<NL>>))} })

\* the positions of a \n描述: from which the rest of the pattern matches
target_ends(text) ==
    {e \in positions(text, <<NL>> \o MIAOSHU) :
        description_at(text, e + 1 + Len(MIAOSHU)).ok}

\* \s*(.+?)\n描述:\s*(.+?)\n tried at the position after 目标地址: : the
\* lazy group runs over line breaks to the first \n描述: from which the rest
\* matches
target_at(text, p) ==
    Pick({ IF g.ok
           THEN Pick({ [ok |-> TRUE, target_url |-> SubSeq(text, g.from, g.to - 1),
                        description |-> d.description, end |-> d.end] :
                       d \in {description_at(text, g.to + 1 + Len(MIAOSHU))} })
           ELSE NoMatch :
           g \in {Pick({ lazy_group(p, ws, ends) :
                         ws \in {ws_run(text, p)}, ends \in {target_ends(text)} })} })

\* the positions of a \n目标地址: from which the rest of the pattern matches
name_ends(text) ==
    {e \in positions(text, <<NL>> \o MUBIAODIZHI) :
        target_at(text, e + 1 + Len(MUBIAODIZHI)).ok}

\* api_pattern tried at position p
api_match_at(text, p) ==
    IF ~text_at(text, p, JIEKOU)
    THEN NoMatch
    ELSE Pick({ IF g.ok
                THEN Pick({ [ok |-> TRUE, start |-> p,
                             func_name |-> SubSeq(text, g.from, g.to - 1),
                             target_url |-> t.target_url,
                             description |-> t.description, end |-> t.end] :
                            t \in {target_at(text, g.to + 1 + Len(MUBIAODIZHI))} })
                ELSE NoMatch :
                g \in {Pick({ lazy_group(p + Len(JIEKOU), ws, ends) :
                              ws \in {ws_run(text, p + Len(JIEKOU))},
                              ends \in {name_ends(text)} })} })

\* list(re.finditer(api_pattern, content, re.DOTALL)), scanning from p: a
\* match can start only where the label 接口: stands
RECURSIVE api_matches(_, _)
api_matches(text, p) ==
    Pick({ IF starts = {}
           THEN <<>>
           ELSE Pick({ IF m.ok THEN <<m>> \o api_matches(text, m.end)
                       ELSE api_matches(text, m.next) :
                       m \in {[next |-> SetMin(starts) + 1]
                              @@ api_match_at(text, SetMin(starts))} }) :
           starts \in {{e \in positions(text, JIEKOU) : e >= p}} })

\* content.rfind('\n', 0, api_start) + 1, or 0: here the first position is 1
section_start(text, api_start) ==
    LET B == {q \in 1..(api_start - 1) : text[q] = NL}
    IN  IF B = {} THEN 1 ELSE SetMax(B) + 1

\* the lines of s that end with a line break, without it
RECURSIVE terminated_lines(_)
terminated_lines(s) ==
    IF ~contains(s, NL)
    THEN <<>>
    ELSE LET e == SetMin({i \in 1..Len(s) : s[i] = NL})
         IN  <<SubSeq(s, 1, e - 1)>> \o terminated_lines(SubSeq(s, e + 1, Len(s)))

\* s.split(c)
RECURSIVE split(_, _)
split(s, c) ==
    IF ~contains(s, c)
    THEN <<s>>
    ELSE LET e == SetMin({i \in 1..Len(s) : s[i] = c})
         IN  <<SubSeq(s, 1, e - 1)>> \o split(SubSeq(s, e + 1, Len(s)), c)

is_blank(line) == \A i \in 1..Len(line) : line[i] \in TextWhitespace

\* \|(.+)\|\s* over a whole line: a pipe first, a pipe last but for blanks,
\* and a character between them
pipe_line(line) ==
    /\ Len(line) >= 3
    /\ line[1] = "|"
    /\ LET body == text_rstrip(line) IN Len(body) >= 3 /\ body[Len(body)] = "|"

\* \|([\-:]+\|)+\s* over a whole line
separator_line(line) ==
    LET body == text_rstrip(line)
    IN  /\ Len(body) >= 3
        /\ body[1] = "|"
        /\ body[Len(body)] = "|"
        /\ \A i \in 1..Len(body) : body[i] \in {"-", ":", "|"}
        /\ \A i \in 1..(Len(body) - 1) : ~(body[i] = "|" /\ body[i + 1] = "|")

\* {table_name}\s* to the end of the line
title_exact(line, table_name) ==
    \E k \in 1..Len(line) :
        /\ text_at(line, k, table_name)
        /\ is_blank(SubSeq(line, k + Len(table_name), Len(line)))

\* ({prefix}[^\n]*)\s* to the end of the line
title_prefix(line, prefix) == is_substring(prefix, line)

\* the first line after line i that is not blank, 0 if there is none: the
\* \s* before each \n of the pattern runs over blank lines
next_line(lines, i) ==
    LET J == {j \in (i + 1)..Len(lines) : ~is_blank(lines[j])}
    IN  IF J = {} THEN 0 ELSE SetMin(J)

\* the rest of the pattern after the title on line i: the header line, the
\* separator line and the first data row
table_at(lines, i) ==
    LET h == next_line(lines, i)
        s == IF h = 0 THEN 0 ELSE next_line(lines, h)
        r == IF s = 0 THEN 0 ELSE next_line(lines, s)
    IN  IF /\ r # 0
           /\ pipe_line(lines[h])
           /\ separator_line(lines[s])
           /\ pipe_line(lines[r])
        THEN [ok |-> TRUE, header |-> h, first_row |-> r]
        ELSE NoMatch

\* ((?:\|.+\|\s*\n)+): the last line of the run of data rows that starts at r
last_row(lines, r) ==
    SetMax({e \in r..Len(lines) :
               /\ pipe_line(lines[e])
               /\ \A j \in r..e : pipe_line(lines[j]) \/ is_blank(lines[j])})

\* [h.strip() for h in match.group(1).split('|') if h.strip()]
RECURSIVE nonblank_cells(_)
nonblank_cells(cells) ==
    IF cells = <<>>
    THEN <<>>
    ELSE (IF text_strip(Head(cells)) = <<>> THEN <<>> ELSE <<text_strip(Head(cells))>>)
         \o nonblank_cells(Tail(cells))

table_headers(line) ==
    LET body == text_rstrip(line)
    IN  nonblank_cells(split(SubSeq(body, 2, Len(body) - 1), "|"))

\* [c.strip() for c in row.split('|')[1:-1]]
row_cells(row) ==
    LET parts == split(row, "|")
    IN  [i \in 1..(Len(parts) - 2) |-> text_strip(parts[i + 1])]

\* dict(zip(headers, cells))
RECURSIVE zip_dict(_, _, _)
zip_dict(headers, cells, n) ==
    IF n = 0
    THEN <<>>
    ELSE dict_put(zip_dict(headers, cells, n - 1), headers[n], cells[n])

\* the loop over match.group(3).strip().split('\n'), rows from..to
RECURSIVE table_rows(_, _, _, _)
table_rows(lines, headers, from, to) ==
    IF from > to
    THEN <<>>
    ELSE LET row == lines[from]
             kept == /\ ~is_blank(row)
                     /\ ~is_substring(<<"|", "-", "-", "-">>, row)
                     /\ Len(row_cells(row)) = Len(headers)
         IN  (IF kept THEN <<zip_dict(headers, row_cells(row), Len(headers))>> ELSE <<>>)
             \o table_rows(lines, headers, from + 1, to)

\* the rows of the first table of the section whose title line passes: the
\* table name to the end of the line, or the table name and any suffix
first_table(lines, table_name, exact) ==
    LET title(line) == IF exact THEN title_exact(line, table_name)
                       ELSE title_prefix(line, table_name)
        I == {i \in 1..Len(lines) : title(lines[i]) /\ table_at(lines, i).ok}
    IN  IF I = {}
        THEN <<>>
        ELSE LET t == table_at(lines, SetMin(I))
             IN  table_rows(lines, table_headers(lines[t.header]), t.first_row,
                            last_row(lines, t.first_row))

parse_table(section, table_name) ==
    first_table(terminated_lines(section), table_name, TRUE)

parse_table_with_prefix(section, prefix) ==
    LET rows == parse_table(section, prefix)
    IN  IF rows # <<>> THEN rows ELSE first_table(terminated_lines(section), prefix, FALSE)

\* the interface of match idx: its section runs from the start of the line
\* of its label to the start of the next match, or to the end of the text
interface_of(text, matches, idx) ==
    Pick({ [func_name |-> text_strip(matches[idx].func_name),
            target_url |-> text_strip(matches[idx].target_url),
            description |-> text_strip(matches[idx].description),
            input_params |-> parse_table_with_prefix(section_content, SHURUCANSHU),
            output_params |-> parse_table_with_prefix(section_content, SHUCHUCANSHU)] :
           section_content \in
               {SubSeq(text, section_start(text, matches[idx].start),
                       (IF idx < Len(matches) THEN matches[idx + 1].start
                        ELSE Len(text) + 1) - 1)} })

\* the interfaces _parse_file_with_detail returns for the text of a file
parse_file_with_detail(text) ==
    Pick({ [idx \in 1..Len(matches) |-> interface_of(text, matches, idx)] :
           matches \in {api_matches(text, 1)} })

---------------------------------------------------------------------------
(* Inputs of _parse_file_with_detail *)

\* the largest number of data rows of a table
MaxRows == 3

name_line(n) == JIEKOU \o <<" ">> \o n

URL_LINE == MUBIAODIZHI \o <<" ", "u">>

DESC_LINE == MIAOSHU \o <<" ", "d">>

TEXT_LINE == <<"f", "o", "o">>

\* | 名称 | 类型 | 描述 | without the blanks
HEADER_LINE ==
    <<"|", "U540D", "U79F0", "|", "U7C7B", "U578B", "|", "U63CF", "U8FF0", "|">>

SEPARATOR_LINE == <<"|", "-", "-", "-", "|", "-", "-", "-", "|", "-", "-", "-", "|">>

row_line(n) == <<"|">> \o n \o <<"|", "i", "n", "t", "|", "p", "|">>

ROW_X == row_line(<<"x">>)

ROW_Y == row_line(<<"y">>)

\* a row of two cells under the header of three
ROW_SHORT == <<"|", "w", "|", "i", "n", "t", "|">>

\* a row of two cells that lacks its closing pipe
ROW_OPEN == <<"|", "v", "|", "i", "n", "t">>

\* the three header lines of an interface, intact
header_lines(n) == <<name_line(n), URL_LINE, DESC_LINE>>

\* the header lines as a file can hold them: intact, with a line of text
\* after the name line, or without the description line
HeaderForms(n) ==
    { header_lines(n),
      <<name_line(n), TEXT_LINE, URL_LINE, DESC_LINE>>,
      <<name_line(n), URL_LINE>> }

table_lines(title, rows) == <<title, HEADER_LINE, SEPARATOR_LINE>> \o rows

RowLists ==
    UNION { [1..n -> {ROW_X, ROW_Y, ROW_SHORT, ROW_OPEN}] : n \in 1..MaxRows }

\* one interface with an output table of any rows, alone or followed by the
\* header of a second interface
TableFiles ==
    { header_lines(<<"a">>) \o table_lines(SHUCHUCANSHU, rows) \o tail :
        rows \in RowLists, tail \in {<<>>, header_lines(<<"b">>)} }

\* the section of one interface: its header in one of its forms, with or
\* without an input table and an output table of one row
Sections(n, row) ==
    { h \o tin \o tout :
        h \in HeaderForms(n),
        tin \in {<<>>, table_lines(SHURUCANSHU, <<row>>)},
        tout \in {<<>>, table_lines(SHUCHUCANSHU, <<row>>)} }

\* one or two interfaces with any header form
HeaderFiles ==
    { s1 \o s2 : s1 \in Sections(<<"a">>, ROW_X),
                 s2 \in {<<>>} \cup Sections(<<"b">>, ROW_Y) }

\* "\n".join(lines), with a line break at the end or not
RECURSIVE join_lines(_)
join_lines(lines) ==
    IF lines = <<>>
    THEN <<>>
    ELSE IF Len(lines) = 1
         THEN Head(lines)
         ELSE Head(lines) \o <<NL>> \o join_lines(Tail(lines))

Contents ==
    { join_lines(lines) \o end : lines \in TableFiles \cup HeaderFiles, end \in {<<>>, <<NL>>} }

NotParsed == [tag |-> "none"]

InitParser ==
    /\ content \in Contents
    /\ interfaces = NotParsed
    /\ parser_pc = "read"

IdleParser ==
    /\ content = <<>>
    /\ interfaces = NotParsed
    /\ parser_pc = "idle"

\* _parse_file_with_detail on a file whose text is content
ParseFileWithDetail ==
    /\ parser_pc = "read"
    /\ interfaces' = parse_file_with_detail(content)
    /\ parser_pc' = "parsed"
    /\ UNCHANGED content
    /\ UNCHANGED <<codeVars, dateVars, numVars, resolverVars, validatorVars, orchVars,
                   builderVars, downloaderVars>>

---------------------------------------------------------------------------
(* Claims about the documentation parser *)

\* the lines of the file as its author wrote them, the last one included
\* whether or not a line break ends it
FileLines == split(content, NL)

\* the text a label line carries after its label
label_value(line, label) == text_strip(SubSeq(line, Len(label) + 1, Len(line)))

\* lines i, i+1, i+2 are the name line, the target-address line and the
\* description line that carry the three texts of the interface
HeaderAt(lines, i, iface) ==
    /\ i >= 1
    /\ i + 2 <= Len(lines)
    /\ startswith(lines[i], JIEKOU)
    /\ label_value(lines[i], JIEKOU) = iface.func_name
    /\ startswith(lines[i + 1], MUBIAODIZHI)
    /\ label_value(lines[i + 1], MUBIAODIZHI) = iface.target_url
    /\ startswith(lines[i + 2], MIAOSHU)
    /\ label_value(lines[i + 2], MIAOSHU) = iface.description

\* the nearest interface-name line at or before line r, 0 if there is none
OwnerLine(lines, r) ==
    LET N == {i \in 1..r : startswith(lines[i], JIEKOU)}
    IN  IF N = {} THEN 0 ELSE SetMax(N)

\* the name on that line
OwnerOf(lines, r) ==
    IF OwnerLine(lines, r) = 0
    THEN <<>>
    ELSE label_value(lines[OwnerLine(lines, r)], JIEKOU)

\* the cells of a returned field, in the order of the header
ParamCells(param) == [i \in 1..Len(param) |-> param[i][2]]

\* the lines of the file that hold the returned field as a row
RowLinesOf(lines, param) ==
    {r \in 1..Len(lines) : startswith(lines[r], <<"|">>) /\ row_cells(lines[r]) = ParamCells(param)}

AllParams(iface) ==
    {iface.input_params[n] : n \in 1..Len(iface.input_params)}
    \cup {iface.output_params[n] : n \in 1..Len(iface.output_params)}

\* C28: every returned interface comes from three consecutive lines (name
\* line, target-address line, description line): its func_name, target_url
\* and description are each the text of one line, without a line break
C28_ThreeConsecutiveLines ==
    parser_pc = "parsed" =>
        \A k \in 1..Len(interfaces) :
            /\ ~contains(interfaces[k].func_name, NL)
            /\ ~contains(interfaces[k].target_url, NL)
            /\ ~contains(interfaces[k].description, NL)
            /\ \E i \in 1..Len(FileLines) : HeaderAt(FileLines, i, interfaces[k])

\* C23: every field an interface is returned with is a row of a table of
\* that interface: the row stands under the interface-name line that most
\* closely precedes it, never under the name line of another interface
C23_TablesOfOwnInterface ==
    parser_pc = "parsed" =>
        \A k \in 1..Len(interfaces) :
            \A param \in AllParams(interfaces[k]) :
                \E r \in RowLinesOf(FileLines, param) :
                    OwnerOf(FileLines, r) = Head(split(interfaces[k].func_name, NL))

\* the title lines of the tables of the file: a table name, then the header
\* line, the separator line and at least one line that starts with a pipe
TablesOf(lines) ==
    {t \in 1..(Len(lines) - 3) :
        /\ lines[t] \in {SHURUCANSHU, SHUCHUCANSHU}
        /\ pipe_line(lines[t + 1])
        /\ separator_line(lines[t + 2])
        /\ startswith(lines[t + 3], <<"|">>)}

\* the data rows of the table with its title on line t: the run of lines
\* that start with a pipe
RowRun(lines, t) ==
    {r \in (t + 3)..Len(lines) : \A j \in (t + 3)..r : startswith(lines[j], <<"|">>)}

\* the cell count of the row differs from the cell count of the header
BadRow(row, header) == Len(row_cells(row)) # Len(table_headers(header))

ParamsOf(iface, title) ==
    IF title = SHURUCANSHU THEN iface.input_params ELSE iface.output_params

\* C22: when a table holds a data row whose cell count differs from the
\* header's, the interface is still returned with its name, target URL and
\* description, that row is not returned, and every other row of the table
\* with the header's cell count, before and after it, is returned
C22_OnlyBadRowDropped ==
    parser_pc = "parsed" =>
        \A t \in TablesOf(FileLines) :
            (\E r \in RowRun(FileLines, t) : BadRow(FileLines[r], FileLines[t + 1])) =>
                \E k \in 1..Len(interfaces) :
                    /\ HeaderAt(FileLines, OwnerLine(FileLines, t), interfaces[k])
                    /\ \A r \in RowRun(FileLines, t) :
                          LET returned ==
                                \E n \in 1..Len(ParamsOf(interfaces[k], FileLines[t])) :
                                    ParamCells(ParamsOf(interfaces[k], FileLines[t])[n])
                                        = row_cells(FileLines[r])
                          IN  returned <=> ~BadRow(FileLines[r], FileLines[t + 1])

---------------------------------------------------------------------------
(* Specifications: one per component, and their union *)

NextCode == NormalizeStockCode \/ NormalizeStockCodeAgain

\* a process that only normalizes stock codes
CodeStart == InitCode /\ IdleDate /\ IdleNum /\ IdleResolver /\ IdleValidator /\ IdleOrchestrator
    /\ IdleBuilder /\ IdleDownloader /\ IdleParser

SpecCode == CodeStart /\ [][NextCode]_vars

NextDate == NormalizeDate \/ NormalizeDateAgain

\* a process that only normalizes dates
DateStart == IdleCode /\ InitDate /\ IdleNum /\ IdleResolver /\ IdleValidator /\ IdleOrchestrator
    /\ IdleBuilder /\ IdleDownloader /\ IdleParser

SpecDate == DateStart /\ [][NextDate]_vars

NextNum == NormalizeFloat \/ NormalizeInt

\* a process that only normalizes numbers
NumStart == IdleCode /\ IdleDate /\ InitNum /\ IdleResolver /\ IdleValidator /\ IdleOrchestrator
    /\ IdleBuilder /\ IdleDownloader /\ IdleParser

SpecNum == NumStart /\ [][NextNum]_vars

NextResolver == GetCanonicalName \/ MapToStandardField

\* a process that only resolves field names
ResolverStart == IdleCode /\ IdleDate /\ IdleNum /\ InitResolver /\ IdleValidator /\ IdleOrchestrator
    /\ IdleBuilder /\ IdleDownloader /\ IdleParser

SpecResolver == ResolverStart /\ [][NextResolver]_vars

NextValidator == ValidateEquivalentsConsistency

\* a process that only validates an alias table
ValidatorStart == IdleCode /\ IdleDate /\ IdleNum /\ IdleResolver /\ InitValidator /\ IdleOrchestrator
    /\ IdleBuilder /\ IdleDownloader /\ IdleParser

SpecValidator == ValidatorStart /\ [][NextValidator]_vars

NextOrchestrator == UnifyInput \/ NormalizeParams \/ UnifyOutput

\* a process that only unifies requests and responses
OrchestratorStart ==
    IdleCode /\ IdleDate /\ IdleNum /\ IdleResolver /\ IdleValidator /\ InitOrchestrator
    /\ IdleBuilder /\ IdleDownloader /\ IdleParser

SpecOrchestrator == OrchestratorStart /\ [][NextOrchestrator]_vars

NextBuilder == AddFieldMapping \/ SaveMapping

\* a process that only builds and saves the field mapping
BuilderStart ==
    IdleCode /\ IdleDate /\ IdleNum /\ IdleResolver /\ IdleValidator /\ IdleOrchestrator
    /\ InitBuilder /\ IdleDownloader /\ IdleParser

SpecBuilder == BuilderStart /\ [][NextBuilder]_vars

NextDownloader == BeginInterface \/ DownloadInterfaceData \/ EndAttempts \/ ReturnResults

\* a process that only downloads the configured interfaces
DownloaderStart ==
    IdleCode /\ IdleDate /\ IdleNum /\ IdleResolver /\ IdleValidator /\ IdleOrchestrator
    /\ IdleBuilder /\ InitDownloader /\ IdleParser

SpecDownloader == DownloaderStart /\ [][NextDownloader]_vars

NextParser == ParseFileWithDetail

\* a process that only parses one documentation file
ParserStart ==
    IdleCode /\ IdleDate /\ IdleNum /\ IdleResolver /\ IdleValidator /\ IdleOrchestrator
    /\ IdleBuilder /\ IdleDownloader /\ InitParser

SpecParser == ParserStart /\ [][NextParser]_vars

Init ==
    \/ CodeStart \/ DateStart \/ NumStart \/ ResolverStart \/ ValidatorStart
    \/ OrchestratorStart \/ BuilderStart \/ DownloaderStart \/ ParserStart

Next ==
    \/ NormalizeStockCode
    \/ NormalizeStockCodeAgain
    \/ NormalizeDate
    \/ NormalizeDateAgain
    \/ NormalizeFloat
    \/ NormalizeInt
    \/ GetCanonicalName
    \/ MapToStandardField
    \/ ValidateEquivalentsConsistency
    \/ UnifyInput
    \/ NormalizeParams
    \/ UnifyOutput
    \/ AddFieldMapping
    \/ SaveMapping
    \/ BeginInterface
    \/ DownloadInterfaceData
    \/ EndAttempts
    \/ ReturnResults
    \/ ParseFileWithDetail

Spec == Init /\ [][Next]_vars

=============================================================================
